---------------------------- MODULE Spec2Model ----------------------------
(***************************************************************************)
(* A model of src/src/verilog_ast.c: the allocation registry (ast_calloc,  *)
(* ast_free_all) and the AST constructors built on it.                      *)
(*                                                                         *)
(* Memory is a heap of blocks addressed 1..brk.  calloc hands out the next *)
(* fresh address with a zeroed block; free counts the releases of an       *)
(* address, so that a leak (count 0) and a double free (count 2) are both  *)
(* visible.  A failed assert aborts the process: no operation runs after.  *)
(***************************************************************************)
EXTENDS Integers, Sequences, FiniteSets, TLC

VARIABLES
    head,      \* ast_alloc * head: first bookkeeping record of the session
    walker,    \* ast_alloc * walker: last record added / loop cursor
    heap,      \* contents of every block handed out by calloc
    brk,       \* the last address calloc handed out
    frees,     \* per address, the number of free() calls made on it
    session,   \* history: data blocks ast_calloc returned since the last ast_free_all
    lists,     \* contents of the ast_list containers, by list handle
    given,     \* history: per node, the items handed to it, in call order
    aborted,   \* the process was ended by a failed assert or by the allocator
    ret        \* the last operation called, its arguments and what it returned

vars == <<head, walker, heap, brk, frees, session, lists, given, aborted, ret>>

(***************************************************************************)
(* Bounds of the model.                                                    *)
(***************************************************************************)
MaxCalls == 6        \* direct ast_calloc calls in one run
MaxNodes == 4        \* nodes the constructors build in one run
MaxLen == 3          \* items of one list
MaxChecked == 2      \* nodes built in a run of the tag-checked constructors
MaxObjs == 1         \* concatenations, or if-else chains, built in one run

NULL == 0

AST_TRUE == TRUE
AST_FALSE == FALSE

(***************************************************************************)
(* The process memory as one value, so that a constructor can make several *)
(* allocator calls in sequence.                                            *)
(***************************************************************************)
Mem ==
    [head |-> head, walker |-> walker, heap |-> heap, brk |-> brk,
     frees |-> frees, session |-> session, aborted |-> aborted]

SetMem(m) ==
    /\ head' = m.head
    /\ walker' = m.walker
    /\ heap' = m.heap
    /\ brk' = m.brk
    /\ frees' = m.frees
    /\ session' = m.session
    /\ aborted' = m.aborted

\* struct ast_alloc_t, zeroed
ast_alloc == [struct |-> "ast_alloc", next |-> NULL, data |-> NULL]

\* calloc(num, size): a fresh block holding the zeroed value `zero`
calloc(m, zero) ==
    LET a == m.brk + 1 IN
    [m EXCEPT !.brk = a,
              !.heap = [x \in DOMAIN m.heap \cup {a} |->
                            IF x = a THEN zero ELSE m.heap[x]],
              !.frees = [x \in DOMAIN m.frees \cup {a} |->
                            IF x = a THEN 0 ELSE m.frees[x]]]

\* free(p).  Freeing a block twice is undefined: with `detect` the allocator
\* notices and aborts the process, without it the call returns.
free(m, p, detect) ==
    [m EXCEPT !.frees[p] = @ + 1,
              !.aborted = IF m.frees[p] > 0 THEN detect ELSE @]

\* p -> field = value
Store(m, p, field, value) ==
    [m EXCEPT !.heap[p] = [f \in DOMAIN @ |-> IF f = field THEN value ELSE @[f]]]

\* ast_calloc leaving walker on the record it was on
ast_calloc_walker_stays(m, zero) ==
    LET m1 == calloc(m, ast_alloc)
        r  == m1.brk
        m2 == IF m.head = NULL
              THEN [m1 EXCEPT !.head = r, !.walker = r]
              ELSE Store(m1, m.walker, "next", r)
        m3 == calloc(m2, zero)
    IN  [Store(m3, r, "data", m3.brk) EXCEPT !.session = Append(@, m3.brk)]

\* void * ast_calloc(size_t num, size_t size); the block returned is
\* walker -> data of the result (see Returned).
ast_calloc(m, zero) ==
    LET m1 == calloc(m, ast_alloc)
        r  == m1.brk
        m2 == IF m.head = NULL
              THEN [m1 EXCEPT !.head = r, !.walker = r]
              ELSE [Store(m1, m.walker, "next", r) EXCEPT !.walker = r]
        m3 == calloc(m2, zero)
    IN  [Store(m3, r, "data", m3.brk) EXCEPT !.session = Append(@, m3.brk)]

Returned(m) == m.heap[m.walker].data

\* tr -> f = fields[f], for every field f of `fields`
StoreAll(m, p, fields) ==
    [m EXCEPT !.heap[p] = [f \in DOMAIN @ |->
                              IF f \in DOMAIN fields THEN fields[f] ELSE @[f]]]

\* the zero value of an enum field, whichever enumerator that is
ENUM_0 == "enum:0"

\* objects built outside this file (identifiers, numbers, attribute lists of
\* other modules): opaque addresses, distinct from the heap's
Ext == {101, 102}

\* the while loop of ast_free_all
RECURSIVE ast_free_all_loop(_, _)
ast_free_all_loop(m, detect) ==
    IF m.aborted \/ m.heap[m.head].next = NULL
    THEN m
    ELSE LET w  == m.head
             m1 == [m EXCEPT !.walker = w, !.head = m.heap[w].next]
             m2 == free(m1, m1.heap[w].data, detect)
             m3 == IF m2.aborted THEN m2 ELSE free(m2, w, detect)
         IN  ast_free_all_loop(m3, detect)

\* ast_free_all without its first test: head -> next is read through NULL
ast_free_all_no_guard(m, detect) ==
    IF m.head = NULL
    THEN [m EXCEPT !.aborted = TRUE]
    ELSE LET m1 == ast_free_all_loop(m, detect)
         IN  IF m1.aborted
             THEN m1
             ELSE [m1 EXCEPT !.walker = NULL, !.head = NULL, !.session = <<>>]

\* ast_free_all without its last assignment, head = NULL
ast_free_all_keeps_head(m, detect) ==
    IF m.head = NULL
    THEN m
    ELSE LET m1 == ast_free_all_loop(m, detect)
         IN  IF m1.aborted
             THEN m1
             ELSE [m1 EXCEPT !.walker = NULL, !.session = <<>>]

\* void ast_free_all()
ast_free_all(m, detect) ==
    IF m.head = NULL
    THEN m
    ELSE LET m1 == ast_free_all_loop(m, detect)
         IN  IF m1.aborted
             THEN m1
             ELSE [m1 EXCEPT !.walker = NULL, !.head = NULL, !.session = <<>>]

(***************************************************************************)
(* The registry: the chain of bookkeeping records starting at head.        *)
(***************************************************************************)
RECURSIVE ChainFrom(_, _, _)
ChainFrom(h, p, fuel) ==
    IF p = NULL \/ fuel = 0 THEN <<>> ELSE <<p>> \o ChainFrom(h, h[p].next, fuel - 1)

Chain == ChainFrom(heap, head, brk)

Range(s) == {s[i] : i \in DOMAIN s}

\* the data blocks the registry holds, in chain order
Registry == [i \in DOMAIN Chain |-> heap[Chain[i]].data]

(***************************************************************************)
(* Operations of the allocation interface, called directly.                *)
(***************************************************************************)
StructSizes == {1, 2}

\* a raw block of `bytes` zeroed bytes
Zeroed(bytes) == [struct |-> "raw", bytes |-> bytes]

Call_ast_calloc(num, size) ==
    /\ ~aborted
    /\ brk + 2 <= 2 * MaxCalls
    /\ LET m == ast_calloc(Mem, Zeroed(num * size))
       IN  /\ SetMem(m)
           /\ ret' = [op |-> "ast_calloc", args |-> <<num, size>>,
                      val |-> Returned(m), failed |-> FALSE]
    /\ UNCHANGED <<lists, given>>

Call_ast_free_all(detect) ==
    /\ ~aborted
    /\ LET m == ast_free_all(Mem, detect)
       IN  /\ SetMem(m)
           /\ ret' = [op |-> "ast_free_all", args |-> <<>>,
                      val |-> NULL, failed |-> m.aborted]
    /\ UNCHANGED <<lists, given>>

Init ==
    /\ head = NULL
    /\ walker = NULL
    /\ heap = <<>>
    /\ brk = 0
    /\ frees = <<>>
    /\ session = <<>>
    /\ lists = <<>>
    /\ given = <<>>
    /\ aborted = FALSE
    /\ ret = [op |-> "start", args |-> <<>>, val |-> NULL, failed |-> FALSE]

NextArena ==
    \/ \E size \in StructSizes : Call_ast_calloc(1, size)
    \/ \E detect \in BOOLEAN : Call_ast_free_all(detect)

SpecArena == Init /\ [][NextArena]_vars

(***************************************************************************)
(* Constructors.  Each is one action: its allocator calls, its assert and  *)
(* its field assignments.  `struct` is the C type of a block.              *)
(***************************************************************************)
\* the constructor returns tr
Return(op, args, m, tr) ==
    /\ SetMem(m)
    /\ ret' = [op |-> op, args |-> args, val |-> tr, failed |-> FALSE]
    /\ UNCHANGED <<lists, given>>

\* blocks of C type `struct` of the current session that have not been freed:
\* what a caller may still pass on
Live(struct) ==
    {a \in Range(Registry) : heap[a].struct = struct /\ frees[a] = 0}

(***************************************************************************)
(* User-defined primitives.                                                *)
(***************************************************************************)
ast_udp_body_t ==
    [struct |-> "ast_udp_body", body_type |-> ENUM_0, initial |-> NULL,
     entries |-> NULL]

ast_udp_declaration_t ==
    [struct |-> "ast_udp_declaration", attributes |-> NULL, identifier |-> NULL,
     ports |-> NULL, body_entries |-> NULL, initial |-> NULL,
     body_type |-> ENUM_0]

ast_new_udp_sequential_body(initial_statement, sequential_entries) ==
    /\ ~aborted
    /\ brk + 2 <= 2 * MaxNodes
    /\ LET m1 == ast_calloc(Mem, ast_udp_body_t)
           tr == Returned(m1)
           m2 == StoreAll(m1, tr, [body_type |-> "UDP_BODY_SEQUENTIAL",
                                   initial   |-> initial_statement,
                                   entries   |-> sequential_entries])
       IN  Return("ast_new_udp_sequential_body",
                  <<initial_statement, sequential_entries>>, m2, tr)

ast_new_udp_combinatoral_body(combinatorial_entries) ==
    /\ ~aborted
    /\ brk + 2 <= 2 * MaxNodes
    /\ LET m1 == ast_calloc(Mem, ast_udp_body_t)
           tr == Returned(m1)
           m2 == StoreAll(m1, tr, [body_type |-> "UDP_BODY_COMBINATORIAL",
                                   entries   |-> combinatorial_entries])
       IN  Return("ast_new_udp_combinatoral_body",
                  <<combinatorial_entries>>, m2, tr)

\* body is read, then released with free(body)
ast_new_udp_declaration(attributes, identifier, ports, body, detect) ==
    /\ ~aborted
    /\ brk + 2 <= 2 * MaxNodes
    /\ LET m1 == ast_calloc(Mem, ast_udp_declaration_t)
           tr == Returned(m1)
           m2 == StoreAll(m1, tr, [attributes   |-> attributes,
                                   identifier   |-> identifier,
                                   ports        |-> ports,
                                   body_entries |-> m1.heap[body].entries,
                                   initial      |-> m1.heap[body].initial,
                                   body_type    |-> m1.heap[body].body_type])
           m3 == free(m2, body, detect)
       IN  Return("ast_new_udp_declaration",
                  <<attributes, identifier, ports, body>>, m3, tr)

NextUdp ==
    \/ \E i \in {NULL, 101} : ast_new_udp_sequential_body(i, 102)
    \/ \E e \in {NULL, 102} : ast_new_udp_combinatoral_body(e)
    \/ \E b \in Live("ast_udp_body"), detect \in BOOLEAN :
          ast_new_udp_declaration(NULL, 101, NULL, b, detect)
    \/ \E detect \in BOOLEAN : Call_ast_free_all(detect)

SpecUdp == Init /\ [][NextUdp]_vars

(***************************************************************************)
(* The list container (ast_list).  Its code is not in this file; it is     *)
(* modelled from its contract: new, append at the tail, insert at the      *)
(* front, concatenation, indexed lookup.  Lists have handles of their own. *)
(***************************************************************************)
ListBase == 200

ast_list_handle(ls) == ListBase + Cardinality(DOMAIN ls) + 1

ast_list_new(ls) ==
    [h \in DOMAIN ls \cup {ast_list_handle(ls)} |->
        IF h \in DOMAIN ls THEN ls[h] ELSE <<>>]

ast_list_append(ls, l, item) == [ls EXCEPT ![l] = Append(@, item)]

ast_list_preappend(ls, l, item) == [ls EXCEPT ![l] = <<item>> \o @]

ast_list_concat(ls, dst, src) == [ls EXCEPT ![dst] = @ \o ls[src]]

ast_list_get(ls, l, i) ==
    IF 0 <= i /\ i < Len(ls[l]) THEN ls[l][i + 1] ELSE NULL

\* the record of what a node was handed
Given(g, n, items) ==
    [x \in DOMAIN g \cup {n} |-> IF x = n THEN items ELSE g[x]]

\* the constructor returns tr, having built or changed lists
ReturnL(op, args, m, tr, ls, g) ==
    /\ SetMem(m)
    /\ ret' = [op |-> op, args |-> args, val |-> tr, failed |-> FALSE]
    /\ lists' = ls
    /\ given' = g

\* a void function returns
ReturnVoid(op, args, ls, g) ==
    /\ ret' = [op |-> op, args |-> args, val |-> NULL, failed |-> FALSE]
    /\ lists' = ls
    /\ given' = g
    /\ UNCHANGED <<head, walker, heap, brk, frees, session, aborted>>

\* the caller builds a list
Call_ast_list_new ==
    /\ ~aborted
    /\ ReturnVoid("ast_list_new", <<>>, ast_list_new(lists), given)

Call_ast_list_append(l, item) ==
    /\ ~aborted
    /\ Len(lists[l]) < MaxLen
    /\ ReturnVoid("ast_list_append", <<l, item>>,
                  ast_list_append(lists, l, item), given)

(***************************************************************************)
(* Concatenations.                                                         *)
(***************************************************************************)
ast_concatenation_type ==
    {"CONCATENATION_EXPRESSION", "CONCATENATION_CONSTANT_EXPRESSION",
     "CONCATENATION_NET", "CONCATENATION_VARIABLE", "CONCATENATION_MODULE_PATH"}

ast_concatenation_t ==
    [struct |-> "ast_concatenation", repeat |-> NULL, type |-> ENUM_0,
     items |-> NULL]

\* ast_new_concatenation putting the new node itself in its items
ast_new_concatenation_holding_itself(type, repeat, first_value) ==
    /\ ~aborted
    /\ brk + 2 <= 2 * MaxNodes
    /\ LET m1 == ast_calloc(Mem, ast_concatenation_t)
           tr == Returned(m1)
           l  == ast_list_handle(lists)
           m2 == StoreAll(m1, tr, [repeat |-> repeat, type |-> type, items |-> l])
           ls == ast_list_append(ast_list_new(lists), l, tr)
       IN  ReturnL("ast_new_concatenation", <<type, repeat, first_value>>,
                   m2, tr, ls, Given(given, tr, <<first_value>>))

ast_new_concatenation(type, repeat, first_value) ==
    /\ ~aborted
    /\ brk + 2 <= 2 * MaxNodes
    /\ LET m1 == ast_calloc(Mem, ast_concatenation_t)
           tr == Returned(m1)
           l  == ast_list_handle(lists)
           m2 == StoreAll(m1, tr, [repeat |-> repeat, type |-> type, items |-> l])
           ls == ast_list_append(ast_list_new(lists), l, first_value)
       IN  ReturnL("ast_new_concatenation", <<type, repeat, first_value>>,
                   m2, tr, ls, Given(given, tr, <<first_value>>))

ast_new_empty_concatenation(type) ==
    /\ ~aborted
    /\ brk + 2 <= 2 * MaxNodes
    /\ LET m1 == ast_calloc(Mem, ast_concatenation_t)
           tr == Returned(m1)
           l  == ast_list_handle(lists)
           m2 == StoreAll(m1, tr, [repeat |-> NULL, type |-> type, items |-> l])
       IN  ReturnL("ast_new_empty_concatenation", <<type>>,
                   m2, tr, ast_list_new(lists), Given(given, tr, <<>>))

\* ast_extend_concatenation adding at the tail
ast_extend_concatenation_at_tail(element, repeat, data) ==
    /\ ~aborted
    /\ Len(lists[heap[element].items]) < MaxLen
    /\ ReturnVoid("ast_extend_concatenation", <<element, repeat, data>>,
                  ast_list_append(lists, heap[element].items, data),
                  Given(given, element, Append(given[element], data)))

ast_extend_concatenation(element, repeat, data) ==
    /\ ~aborted
    /\ Len(lists[heap[element].items]) < MaxLen
    /\ ReturnVoid("ast_extend_concatenation", <<element, repeat, data>>,
                  ast_list_preappend(lists, heap[element].items, data),
                  Given(given, element, Append(given[element], data)))

(***************************************************************************)
(* If-else chains.                                                         *)
(***************************************************************************)
ast_if_else_t ==
    [struct |-> "ast_if_else", else_condition |-> NULL,
     conditional_statements |-> NULL]

ast_conditional_statement_t ==
    [struct |-> "ast_conditional_statement", statement |-> NULL,
     condition |-> NULL]

ast_new_conditional_statement(statement, condition) ==
    /\ ~aborted
    /\ brk + 2 <= 2 * MaxNodes
    /\ LET m1 == ast_calloc(Mem, ast_conditional_statement_t)
           tr == Returned(m1)
       IN  Return("ast_new_conditional_statement", <<statement, condition>>,
                  StoreAll(m1, tr, [statement |-> statement,
                                    condition |-> condition]), tr)

ast_new_if_else(if_condition, else_condition) ==
    /\ ~aborted
    /\ brk + 2 <= 2 * MaxNodes
    /\ LET m1 == ast_calloc(Mem, ast_if_else_t)
           tr == Returned(m1)
           l  == ast_list_handle(lists)
           m2 == StoreAll(m1, tr, [else_condition |-> else_condition,
                                   conditional_statements |-> l])
           ls == ast_list_append(ast_list_new(lists), l, if_condition)
       IN  ReturnL("ast_new_if_else", <<if_condition, else_condition>>,
                   m2, tr, ls, Given(given, tr, <<if_condition>>))

\* ast_extend_if_else putting the new statements first
ast_extend_if_else_in_front(conditional_statements, new_statements) ==
    /\ ~aborted
    /\ LET l == heap[conditional_statements].conditional_statements
           args == <<conditional_statements, new_statements>>
       IN  IF new_statements # NULL
           THEN /\ Len(lists[l]) + Len(lists[new_statements]) <= MaxLen
                /\ ReturnVoid("ast_extend_if_else", args,
                       [lists EXCEPT ![l] = lists[new_statements] \o @],
                       Given(given, conditional_statements,
                             given[conditional_statements]
                                \o lists[new_statements]))
           ELSE ReturnVoid("ast_extend_if_else", args, lists, given)

ast_extend_if_else(conditional_statements, new_statements) ==
    /\ ~aborted
    /\ LET l == heap[conditional_statements].conditional_statements
           args == <<conditional_statements, new_statements>>
       IN  IF new_statements # NULL
           THEN /\ Len(lists[l]) + Len(lists[new_statements]) <= MaxLen
                /\ ReturnVoid("ast_extend_if_else", args,
                       ast_list_concat(lists, l, new_statements),
                       Given(given, conditional_statements,
                             given[conditional_statements]
                                \o lists[new_statements]))
           ELSE ReturnVoid("ast_extend_if_else", args, lists, given)

(***************************************************************************)
(* Case statements.                                                        *)
(***************************************************************************)
ast_case_item_t ==
    [struct |-> "ast_case_item", conditions |-> NULL, body |-> NULL,
     is_default |-> FALSE]

ast_case_statement_t ==
    [struct |-> "ast_case_statement", expression |-> NULL, cases |-> NULL,
     type |-> ENUM_0, is_function |-> FALSE, default_item |-> NULL]

ast_new_case_item(conditions, body) ==
    /\ ~aborted
    /\ brk + 2 <= 2 * MaxNodes
    /\ LET m1 == ast_calloc(Mem, ast_case_item_t)
           tr == Returned(m1)
       IN  Return("ast_new_case_item", <<conditions, body>>,
                  StoreAll(m1, tr, [conditions |-> conditions, body |-> body,
                                    is_default |-> AST_FALSE]), tr)

\* the caller marks the item it has just built as the default
Set_is_default(item) ==
    /\ ~aborted
    /\ ret.op = "ast_new_case_item" /\ ret.val = item
    /\ SetMem(StoreAll(Mem, item, [is_default |-> AST_TRUE]))
    /\ ret' = [op |-> "is_default", args |-> <<item>>, val |-> NULL,
               failed |-> FALSE]
    /\ UNCHANGED <<lists, given>>

\* the for loop of ast_new_case_statement from index i: the item to cache in
\* default_item, NULL when the loop ends without caching one
RECURSIVE ast_new_case_statement_scan(_, _, _, _)
ast_new_case_statement_scan(m, ls, cases, i) ==
    IF ~(i < Len(ls[cases]))
    THEN NULL
    ELSE LET the_case == ast_list_get(ls, cases, i)
         IN  IF the_case = NULL
             THEN NULL
             ELSE IF m.heap[the_case].is_default = AST_TRUE
             THEN ast_list_get(ls, cases, i)
             ELSE ast_new_case_statement_scan(m, ls, cases, i + 1)

\* the scan caching the last default item instead of stopping at the first
RECURSIVE ast_new_case_statement_scan_last(_, _, _, _)
ast_new_case_statement_scan_last(m, ls, cases, i) ==
    IF ~(i < Len(ls[cases]))
    THEN NULL
    ELSE LET the_case == ast_list_get(ls, cases, i)
             rest == ast_new_case_statement_scan_last(m, ls, cases, i + 1)
         IN  IF the_case = NULL
             THEN NULL
             ELSE IF m.heap[the_case].is_default = AST_TRUE /\ rest = NULL
             THEN the_case
             ELSE rest

ast_new_case_statement_default_last(m, ls, cases) ==
    ast_new_case_statement_scan_last(m, ls, cases, 0)

\* the value the loop leaves in default_item
ast_new_case_statement_default(m, ls, cases) ==
    ast_new_case_statement_scan(m, ls, cases, 0)

ast_new_case_statement(expression, cases, type) ==
    /\ ~aborted
    /\ brk + 2 <= 2 * MaxNodes
    /\ LET m1 == ast_calloc(Mem, ast_case_statement_t)
           tr == Returned(m1)
           m2 == StoreAll(m1, tr, [expression |-> expression, cases |-> cases,
                                   type |-> type, is_function |-> AST_FALSE])
           d  == ast_new_case_statement_default(m2, lists, cases)
           m3 == IF d # NULL THEN StoreAll(m2, tr, [default_item |-> d]) ELSE m2
       IN  Return("ast_new_case_statement", <<expression, cases, type>>, m3, tr)

\* an assert fails: the process is aborted where it stands
Abort(op, args, m) ==
    /\ SetMem([m EXCEPT !.aborted = TRUE])
    /\ ret' = [op |-> op, args |-> args, val |-> NULL, failed |-> TRUE]
    /\ UNCHANGED <<lists, given>>

(***************************************************************************)
(* Lvalues.  data is a union: its member last written and the value.       *)
(***************************************************************************)
ast_lvalue_type ==
    {"NET_IDENTIFIER", "VAR_IDENTIFIER", "GENVAR_IDENTIFIER",
     "NET_CONCATENATION", "VAR_CONCATENATION"}

ast_lvalue_t ==
    [struct |-> "ast_lvalue", type |-> ENUM_0,
     data |-> [member |-> "none", value |-> NULL]]

\* ast_new_lvalue_id with NET_CONCATENATION let through its assert
ast_new_lvalue_id_lax(type, id) ==
    /\ ~aborted
    /\ brk + 2 <= 2 * MaxNodes
    /\ IF type \in {"NET_IDENTIFIER", "VAR_IDENTIFIER", "GENVAR_IDENTIFIER",
                    "NET_CONCATENATION"}
       THEN LET m1 == ast_calloc(Mem, ast_lvalue_t)
                tr == Returned(m1)
                m2 == StoreAll(m1, tr, [type |-> type,
                          data |-> [member |-> "identifier", value |-> id]])
            IN  Return("ast_new_lvalue_id", <<type, id>>, m2, tr)
       ELSE Abort("ast_new_lvalue_id", <<type, id>>, Mem)

ast_new_lvalue_id(type, id) ==
    /\ ~aborted
    /\ brk + 2 <= 2 * MaxNodes
    /\ IF type \in {"NET_IDENTIFIER", "VAR_IDENTIFIER", "GENVAR_IDENTIFIER"}
       THEN LET m1 == ast_calloc(Mem, ast_lvalue_t)
                tr == Returned(m1)
                m2 == StoreAll(m1, tr, [type |-> type,
                          data |-> [member |-> "identifier", value |-> id]])
            IN  Return("ast_new_lvalue_id", <<type, id>>, m2, tr)
       ELSE Abort("ast_new_lvalue_id", <<type, id>>, Mem)

ast_new_lvalue_concat(type, concat) ==
    /\ ~aborted
    /\ brk + 2 <= 2 * MaxNodes
    /\ IF type \in {"NET_CONCATENATION", "VAR_CONCATENATION"}
       THEN LET m1 == ast_calloc(Mem, ast_lvalue_t)
                tr == Returned(m1)
                m2 == StoreAll(m1, tr, [type |-> type,
                          data |-> [member |-> "concatenation", value |-> concat]])
            IN  Return("ast_new_lvalue_concat", <<type, concat>>, m2, tr)
       ELSE Abort("ast_new_lvalue_concat", <<type, concat>>, Mem)

(***************************************************************************)
(* Events and timing controls.  These allocate first and assert after.     *)
(***************************************************************************)
ast_edge == {"EDGE_POS", "EDGE_NEG", "EDGE_ANY", "EDGE_NONE"}

ast_event_expression_t ==
    [struct |-> "ast_event_expression", type |-> ENUM_0, expression |-> NULL,
     sequence |-> NULL]

\* ast_new_event_expression taking the negative edge for the positive one
ast_new_event_expression_neg_as_pos(trigger_edge, expression) ==
    /\ ~aborted
    /\ brk + 2 <= 2 * MaxNodes
    /\ LET m1 == ast_calloc(Mem, ast_event_expression_t)
           tr == Returned(m1)
           args == <<trigger_edge, expression>>
       IN  IF trigger_edge = "EDGE_NONE"
           THEN Abort("ast_new_event_expression", args, m1)
           ELSE LET m2 ==
                      IF trigger_edge \in {"EDGE_POS", "EDGE_NEG"}
                      THEN StoreAll(m1, tr, [type |-> "EVENT_POSEDGE",
                                             expression |-> expression])
                      ELSE StoreAll(m1, tr, [type |-> "EVENT_EXPRESSION",
                                             expression |-> expression])
                IN  Return("ast_new_event_expression", args, m2, tr)

ast_new_event_expression(trigger_edge, expression) ==
    /\ ~aborted
    /\ brk + 2 <= 2 * MaxNodes
    /\ LET m1 == ast_calloc(Mem, ast_event_expression_t)
           tr == Returned(m1)
           args == <<trigger_edge, expression>>
       IN  IF trigger_edge = "EDGE_NONE"
           THEN Abort("ast_new_event_expression", args, m1)
           ELSE LET m2 ==
                      IF trigger_edge = "EDGE_POS"
                      THEN StoreAll(m1, tr, [type |-> "EVENT_POSEDGE",
                                             expression |-> expression])
                      ELSE IF trigger_edge = "EDGE_NEG"
                      THEN StoreAll(m1, tr, [type |-> "EVENT_NEGEDGE",
                                             expression |-> expression])
                      ELSE IF trigger_edge = "EDGE_ANY"
                      THEN StoreAll(m1, tr, [type |-> "EVENT_EXPRESSION",
                                             expression |-> expression])
                      ELSE m1
                IN  Return("ast_new_event_expression", args, m2, tr)

\* ast_new_event_expression_sequence appending left before right
ast_new_event_expression_sequence_left_first(left, right) ==
    /\ ~aborted
    /\ brk + 2 <= 2 * MaxNodes
    /\ LET m1 == ast_calloc(Mem, ast_event_expression_t)
           tr == Returned(m1)
           l  == ast_list_handle(lists)
           m2 == StoreAll(m1, tr, [type |-> "EVENT_SEQUENCE", sequence |-> l])
           ls == ast_list_append(ast_list_append(ast_list_new(lists), l, left),
                                 l, right)
       IN  ReturnL("ast_new_event_expression_sequence", <<left, right>>,
                   m2, tr, ls, Given(given, tr, <<left, right>>))

ast_new_event_expression_sequence(left, right) ==
    /\ ~aborted
    /\ brk + 2 <= 2 * MaxNodes
    /\ LET m1 == ast_calloc(Mem, ast_event_expression_t)
           tr == Returned(m1)
           l  == ast_list_handle(lists)
           m2 == StoreAll(m1, tr, [type |-> "EVENT_SEQUENCE", sequence |-> l])
           ls == ast_list_append(ast_list_append(ast_list_new(lists), l, right),
                                 l, left)
       IN  ReturnL("ast_new_event_expression_sequence", <<left, right>>,
                   m2, tr, ls, Given(given, tr, <<left, right>>))

\* EVENT_CTRL_ANY is the one enumerator the file names; EVENT_CTRL_TRIGGERS
\* stands for any other
ast_event_control_type == {"EVENT_CTRL_ANY", "EVENT_CTRL_TRIGGERS"}

ast_event_control_t ==
    [struct |-> "ast_event_control", type |-> ENUM_0, expression |-> NULL]

\* ast_new_event_control asserting on the expression whatever the type
ast_new_event_control_strict(type, expression) ==
    /\ ~aborted
    /\ brk + 2 <= 2 * MaxNodes
    /\ LET m1 == ast_calloc(Mem, ast_event_control_t)
           tr == Returned(m1)
           args == <<type, expression>>
       IN  IF expression # NULL
           THEN Abort("ast_new_event_control", args, m1)
           ELSE Return("ast_new_event_control", args,
                       StoreAll(m1, tr, [type |-> type,
                                         expression |-> expression]), tr)

ast_new_event_control(type, expression) ==
    /\ ~aborted
    /\ brk + 2 <= 2 * MaxNodes
    /\ LET m1 == ast_calloc(Mem, ast_event_control_t)
           tr == Returned(m1)
           args == <<type, expression>>
       IN  IF type = "EVENT_CTRL_ANY" /\ expression # NULL
           THEN Abort("ast_new_event_control", args, m1)
           ELSE Return("ast_new_event_control", args,
                       StoreAll(m1, tr, [type |-> type,
                                         expression |-> expression]), tr)

ast_timing_control_statement_type ==
    {"TIMING_CTRL_DELAY_CONTROL", "TIMING_CTRL_EVENT_CONTROL",
     "TIMING_CTRL_EVENT_CONTROL_REPEAT"}

ast_timing_control_statement_t ==
    [struct |-> "ast_timing_control_statement", type |-> ENUM_0,
     delay |-> NULL, event_ctrl |-> NULL, statement |-> NULL, repeat |-> NULL]

\* ast_new_timing_control_statement_delay asserting only that the type is
\* not TIMING_CTRL_EVENT_CONTROL_REPEAT
ast_new_timing_control_statement_delay_lax(type, statement, delay_ctrl) ==
    /\ ~aborted
    /\ brk + 2 <= 2 * MaxNodes
    /\ LET m1 == ast_calloc(Mem, ast_timing_control_statement_t)
           tr == Returned(m1)
           args == <<type, statement, delay_ctrl>>
       IN  IF type = "TIMING_CTRL_EVENT_CONTROL_REPEAT"
           THEN Abort("ast_new_timing_control_statement_delay", args, m1)
           ELSE Return("ast_new_timing_control_statement_delay", args,
                       StoreAll(m1, tr, [type |-> type, delay |-> delay_ctrl,
                                         statement |-> statement,
                                         repeat |-> NULL]), tr)

ast_new_timing_control_statement_delay(type, statement, delay_ctrl) ==
    /\ ~aborted
    /\ brk + 2 <= 2 * MaxNodes
    /\ LET m1 == ast_calloc(Mem, ast_timing_control_statement_t)
           tr == Returned(m1)
           args == <<type, statement, delay_ctrl>>
       IN  IF type # "TIMING_CTRL_DELAY_CONTROL"
           THEN Abort("ast_new_timing_control_statement_delay", args, m1)
           ELSE Return("ast_new_timing_control_statement_delay", args,
                       StoreAll(m1, tr, [type |-> type, delay |-> delay_ctrl,
                                         statement |-> statement,
                                         repeat |-> NULL]), tr)

ast_new_timing_control_statement_event(type, repeat, statement, event_ctrl) ==
    /\ ~aborted
    /\ brk + 2 <= 2 * MaxNodes
    /\ LET m1 == ast_calloc(Mem, ast_timing_control_statement_t)
           tr == Returned(m1)
           args == <<type, repeat, statement, event_ctrl>>
       IN  IF type \notin {"TIMING_CTRL_EVENT_CONTROL",
                           "TIMING_CTRL_EVENT_CONTROL_REPEAT"}
           THEN Abort("ast_new_timing_control_statement_event", args, m1)
           ELSE Return("ast_new_timing_control_statement_event", args,
                       StoreAll(m1, tr, [type |-> type,
                                         event_ctrl |-> event_ctrl,
                                         statement |-> statement,
                                         repeat |-> repeat]), tr)

(***************************************************************************)
(* UDP ports.                                                              *)
(***************************************************************************)
\* PORT_INPUT is the one enumerator the file names; the others stand for the
\* output and inout directions
ast_port_direction == {"PORT_INPUT", "PORT_OUTPUT", "PORT_INOUT"}

ast_udp_port_t ==
    [struct |-> "ast_udp_port", direction |-> ENUM_0, identifier |-> NULL,
     identifiers |-> NULL, attributes |-> NULL, reg |-> FALSE,
     default_value |-> NULL]

\* ast_new_udp_port without its assert
ast_new_udp_port_unchecked(direction, identifier, attributes, reg, default_value) ==
    /\ ~aborted
    /\ brk + 2 <= 2 * MaxNodes
    /\ LET m1 == ast_calloc(Mem, ast_udp_port_t)
           tr == Returned(m1)
           args == <<direction, identifier, attributes, reg, default_value>>
       IN  Return("ast_new_udp_port", args,
                  StoreAll(m1, tr, [direction     |-> direction,
                                    identifier    |-> identifier,
                                    attributes    |-> attributes,
                                    reg           |-> reg,
                                    default_value |-> default_value]), tr)

\* direction is stored before the assert on it
ast_new_udp_port(direction, identifier, attributes, reg, default_value) ==
    /\ ~aborted
    /\ brk + 2 <= 2 * MaxNodes
    /\ LET m1 == ast_calloc(Mem, ast_udp_port_t)
           tr == Returned(m1)
           m2 == StoreAll(m1, tr, [direction |-> direction])
           args == <<direction, identifier, attributes, reg, default_value>>
       IN  IF direction = "PORT_INPUT"
           THEN Abort("ast_new_udp_port", args, m2)
           ELSE Return("ast_new_udp_port", args,
                       StoreAll(m2, tr, [identifier    |-> identifier,
                                         attributes    |-> attributes,
                                         reg           |-> reg,
                                         default_value |-> default_value]), tr)

(***************************************************************************)
(* Switches and gates.                                                     *)
(***************************************************************************)
\* SWITCH_TRAN and SWITCH_RTRAN are the enumerators the file names; the two
\* others stand for the remaining switch types
ast_switchtype == {"SWITCH_TRAN", "SWITCH_RTRAN", "SWITCH_TRANIF0", "SWITCH_NMOS"}

ast_switch_gate_t ==
    [struct |-> "ast_switch_gate", type |-> ENUM_0, delay3 |-> NULL,
     delay2 |-> NULL]

\* ast_new_switch_gate_d3 asserting on SWITCH_TRAN only
ast_new_switch_gate_d3_tran_only(type, delay) ==
    /\ ~aborted
    /\ brk + 2 <= 2 * MaxNodes
    /\ IF type # "SWITCH_TRAN"
       THEN LET m1 == ast_calloc(Mem, ast_switch_gate_t)
                tr == Returned(m1)
            IN  Return("ast_new_switch_gate_d3", <<type, delay>>,
                       StoreAll(m1, tr, [type |-> type, delay3 |-> delay]), tr)
       ELSE Abort("ast_new_switch_gate_d3", <<type, delay>>, Mem)

ast_new_switch_gate_d3(type, delay) ==
    /\ ~aborted
    /\ brk + 2 <= 2 * MaxNodes
    /\ IF type # "SWITCH_TRAN" /\ type # "SWITCH_RTRAN"
       THEN LET m1 == ast_calloc(Mem, ast_switch_gate_t)
                tr == Returned(m1)
            IN  Return("ast_new_switch_gate_d3", <<type, delay>>,
                       StoreAll(m1, tr, [type |-> type, delay3 |-> delay]), tr)
       ELSE Abort("ast_new_switch_gate_d3", <<type, delay>>, Mem)

ast_new_switch_gate_d2(type, delay) ==
    /\ ~aborted
    /\ brk + 2 <= 2 * MaxNodes
    /\ IF type = "SWITCH_TRAN" \/ type = "SWITCH_RTRAN"
       THEN LET m1 == ast_calloc(Mem, ast_switch_gate_t)
                tr == Returned(m1)
            IN  Return("ast_new_switch_gate_d2", <<type, delay>>,
                       StoreAll(m1, tr, [type |-> type, delay2 |-> delay]), tr)
       ELSE Abort("ast_new_switch_gate_d2", <<type, delay>>, Mem)

ast_switches_t ==
    [struct |-> "ast_switches", type |-> NULL, switches |-> NULL]

\* storage from calloc, not from ast_calloc
ast_new_switches(type, switches) ==
    /\ ~aborted
    /\ brk + 1 <= 2 * MaxNodes
    /\ LET m1 == calloc(Mem, ast_switches_t)
           tr == m1.brk
       IN  Return("ast_new_switches", <<type, switches>>,
                  StoreAll(m1, tr, [type |-> type, switches |-> switches]), tr)

ast_pull_strength_t ==
    [struct |-> "ast_pull_strength", strength_1 |-> ENUM_0,
     strength_2 |-> ENUM_0]

\* storage from calloc, not from ast_calloc
ast_new_pull_stregth(strength_1, strength_2) ==
    /\ ~aborted
    /\ brk + 1 <= 2 * MaxNodes
    /\ LET m1 == calloc(Mem, ast_pull_strength_t)
           tr == m1.brk
       IN  Return("ast_new_pull_stregth", <<strength_1, strength_2>>,
                  StoreAll(m1, tr, [strength_1 |-> strength_1,
                                    strength_2 |-> strength_2]), tr)

ast_gate_instantiation_t ==
    [struct |-> "ast_gate_instantiation", type |-> ENUM_0]

\* storage from calloc, not from ast_calloc
ast_new_gate_instantiation(type) ==
    /\ ~aborted
    /\ brk + 1 <= 2 * MaxNodes
    /\ LET m1 == calloc(Mem, ast_gate_instantiation_t)
           tr == m1.brk
       IN  Return("ast_new_gate_instantiation", <<type>>,
                  StoreAll(m1, tr, [type |-> type]), tr)

(***************************************************************************)
(* Declarations.                                                           *)
(***************************************************************************)
ast_type_declaration_t ==
    [struct |-> "ast_type_declaration", type |-> ENUM_0, identifiers |-> NULL,
     delay |-> NULL, drive_strength |-> NULL, charge_strength |-> NULL,
     range |-> NULL, vectored |-> FALSE, scalared |-> FALSE,
     is_signed |-> FALSE, net_type |-> ENUM_0]

\* storage from calloc, not from ast_calloc
ast_new_type_declaration(type) ==
    /\ ~aborted
    /\ brk + 1 <= 2 * MaxNodes
    /\ LET m1 == calloc(Mem, ast_type_declaration_t)
           tr == m1.brk
       IN  Return("ast_new_type_declaration", <<type>>,
                  StoreAll(m1, tr, [type |-> type, identifiers |-> NULL,
                      delay |-> NULL, drive_strength |-> NULL,
                      charge_strength |-> NULL, range |-> NULL,
                      vectored |-> AST_FALSE, scalared |-> AST_FALSE,
                      is_signed |-> AST_FALSE, net_type |-> "NET_TYPE_NONE"]), tr)

(***************************************************************************)
(* Specifications: one per family of operations, each from the empty       *)
(* process state.                                                          *)
(***************************************************************************)
\* blocks of C type `struct` built so far
Blocks(struct) == {a \in DOMAIN heap : heap[a].struct = struct}

\* the fields that hold a list
ListFields == {"items", "conditional_statements", "cases"}

\* lists some node holds
Owned ==
    UNION {{heap[a][f] : f \in ListFields \cap DOMAIN heap[a]} : a \in DOMAIN heap}

\* lists the caller built that no node holds and no ast_list_concat has used up
Open ==
    {l \in DOMAIN lists \ Owned :
        \A o \in Owned \cap DOMAIN lists :
            Range(lists[l]) \cap Range(lists[o]) = {}}

ast_primitive_strength == {"STRENGTH_SUPPLY", "STRENGTH_WEAK"}

NextGate ==
    \/ \E t \in ast_switchtype :
          brk + 2 <= 2 * MaxChecked /\ ast_new_switch_gate_d3(t, 101)
    \/ \E t \in ast_switchtype :
          brk + 2 <= 2 * MaxChecked /\ ast_new_switch_gate_d2(t, 102)
    \/ \E g \in Live("ast_switch_gate") :
          brk + 2 <= 2 * MaxChecked /\ ast_new_switches(g, NULL)
    \/ \E s \in ast_primitive_strength :
          brk + 2 <= 2 * MaxChecked /\ ast_new_pull_stregth(s, "STRENGTH_WEAK")
    \/ brk + 2 <= 2 * MaxChecked /\ ast_new_gate_instantiation("GATE_SWITCH")
    \/ brk + 2 <= 2 * MaxChecked /\ ast_new_type_declaration("DECLARE_NET")
    \/ \E detect \in BOOLEAN : Call_ast_free_all(detect)

SpecGate == Init /\ [][NextGate]_vars

NextConcat ==
    \/ \E t \in {"CONCATENATION_EXPRESSION", "CONCATENATION_NET"},
          repeat \in {NULL, 104}, first \in {101, 102, 103} :
          /\ Cardinality(Blocks("ast_concatenation")) < MaxObjs
          /\ ast_new_concatenation(t, repeat, first)
    \/ /\ Cardinality(Blocks("ast_concatenation")) < MaxObjs
       /\ ast_new_empty_concatenation("CONCATENATION_NET")
    \/ \E c \in Live("ast_concatenation"), data \in {101, 102, 103} :
          ast_extend_concatenation(c, NULL, data)

SpecConcat == Init /\ [][NextConcat]_vars

\* the node the last call built, when it is of C type `struct`
JustBuilt(struct) ==
    {a \in Blocks(struct) : ret.val = a}

NextIfElse ==
    \/ ast_new_conditional_statement(102, 103)
    \/ \E c \in JustBuilt("ast_conditional_statement"), e \in {NULL, 104} :
          /\ Cardinality(Blocks("ast_if_else")) < MaxObjs
          /\ ast_new_if_else(c, e)
    \/ Open = {} /\ Call_ast_list_new
    \/ \E l \in Open, item \in JustBuilt("ast_conditional_statement") :
          Call_ast_list_append(l, item)
    \/ \E c \in Live("ast_if_else"), l \in {NULL} \cup Open :
          ast_extend_if_else(c, l)

SpecIfElse == Init /\ [][NextIfElse]_vars

NextCase ==
    \/ /\ Cardinality(Blocks("ast_case_item")) < MaxLen
       /\ ast_new_case_item(NULL, 101)
    \/ \E item \in Live("ast_case_item") : Set_is_default(item)
    \/ DOMAIN lists = {} /\ Call_ast_list_new
    \/ \E l \in DOMAIN lists, item \in Live("ast_case_item") :
          item \notin Range(lists[l]) /\ Call_ast_list_append(l, item)
    \/ \E l \in DOMAIN lists, t \in {"CASE", "CASEZ"} :
          ast_new_case_statement(102, l, t)

SpecCase == Init /\ [][NextCase]_vars

NextLvalue ==
    \/ \E t \in ast_lvalue_type : ast_new_lvalue_id(t, 101)
    \/ \E t \in ast_lvalue_type, c \in {NULL} \cup Live("ast_concatenation") :
          ast_new_lvalue_concat(t, c)
    \/ /\ Blocks("ast_concatenation") = {}
       /\ ast_new_empty_concatenation("CONCATENATION_NET")

SpecLvalue == Init /\ [][NextLvalue]_vars

NextChecked ==
    \/ \E t \in ast_lvalue_type :
          brk + 2 <= 2 * MaxChecked /\ ast_new_lvalue_id(t, 101)
    \/ \E t \in ast_lvalue_type :
          brk + 2 <= 2 * MaxChecked /\ ast_new_lvalue_concat(t, NULL)
    \/ \E e \in ast_edge :
          brk + 2 <= 2 * MaxChecked /\ ast_new_event_expression(e, 101)
    \/ \E t \in ast_event_control_type,
          e \in {NULL} \cup Live("ast_event_expression") :
          brk + 2 <= 2 * MaxChecked /\ ast_new_event_control(t, e)
    \/ \E t \in ast_timing_control_statement_type :
          /\ brk + 2 <= 2 * MaxChecked
          /\ ast_new_timing_control_statement_delay(t, 102, 103)
    \/ \E t \in ast_timing_control_statement_type,
          c \in {NULL} \cup Live("ast_event_control") :
          /\ brk + 2 <= 2 * MaxChecked
          /\ ast_new_timing_control_statement_event(t, NULL, 102, c)
    \/ \E d \in ast_port_direction :
          /\ brk + 2 <= 2 * MaxChecked
          /\ ast_new_udp_port(d, 101, NULL, AST_TRUE, 104)
    \/ \E t \in ast_switchtype :
          brk + 2 <= 2 * MaxChecked /\ ast_new_switch_gate_d2(t, 102)
    \/ \E t \in ast_switchtype :
          brk + 2 <= 2 * MaxChecked /\ ast_new_switch_gate_d3(t, 103)

SpecChecked == Init /\ [][NextChecked]_vars

(***************************************************************************)
(* The allocation registry: bulk release.                                  *)
(***************************************************************************)
Arena == <<head, walker, heap, brk, frees, aborted>>

\* C1: when ast_free_all has returned, every block handed out so far, data
\* block and bookkeeping record alike, has been freed.
C1_FreeAllFreesEveryBlock ==
    (ret.op = "ast_free_all" /\ ~aborted) => \A a \in DOMAIN frees : frees[a] >= 1

\* C4: after ast_free_all has returned head and walker are NULL, and the
\* ast_calloc that follows it starts a registry of exactly one record, a new
\* one, which holds the block just returned.
C4_FreshSessionAfterRelease ==
    [][ /\ (ret'.op = "ast_free_all" /\ ~aborted') => (head' = NULL /\ walker' = NULL)
        /\ (ret.op = "ast_free_all" /\ ret'.op = "ast_calloc") =>
               /\ ~ret'.failed /\ ret'.val # NULL
               /\ Registry' = <<ret'.val>>
               /\ Range(Chain') \cap (1 .. brk) = {}
               /\ ret'.val \notin 1 .. brk ]_vars

C4_Witness ==
    /\ ret.op = "ast_calloc"
    /\ Len(Chain) = 1
    /\ brk >= 6

\* C5: ast_free_all called when nothing was allocated since the start or since
\* the last ast_free_all changes nothing: head and walker stay NULL and no
\* block is freed.
C5_ReleaseIdempotent ==
    [][ (ret'.op = "ast_free_all" /\ Len(session) = 0) =>
            (UNCHANGED Arena /\ head' = NULL /\ walker' = NULL) ]_vars

C5_Witness ==
    /\ ret.op = "ast_free_all"
    /\ brk = 0
    /\ head = NULL /\ walker = NULL

\* C2: no constructor frees a block: a block the registry holds has never been
\* freed, and no block is ever freed twice.
C2_NoIndividualFree ==
    /\ \A a \in DOMAIN frees : frees[a] <= 1
    /\ \A i \in DOMAIN Registry : frees[Registry[i]] = 0

\* C3: the node a constructor returns is a block of the registry.
C3_EveryNodeRegistered ==
    (~ret.failed /\ ret.val # NULL) => ret.val \in Range(Registry)

(***************************************************************************)
(* Order laws of the sequences.                                            *)
(***************************************************************************)
RECURSIVE Reverse(_)
Reverse(s) == IF s = <<>> THEN <<>> ELSE Append(Reverse(Tail(s)), Head(s))

\* C6: a concatenation built from A holds exactly A, and one extended with
\* x1, ..., xn, in that order, holds xn, ..., x1 and then what it held first.
C6_ConcatenationOrder ==
    /\ ret.op = "ast_new_concatenation" =>
           lists[heap[ret.val].items] = <<ret.args[3]>>
    /\ \A c \in Blocks("ast_concatenation") :
           lists[heap[c].items] = Reverse(given[c])

C6_Witness ==
    \E c \in Blocks("ast_concatenation") :
        /\ given[c] = <<101, 102, 103>>
        /\ lists[heap[c].items] = <<103, 102, 101>>
        /\ ret.op = "ast_extend_concatenation"

IfElseOrder ==
    \A n \in Blocks("ast_if_else") :
        lists[heap[n].conditional_statements] = given[n]

\* C7: a chain built from c1 holds exactly c1; an extension puts the new
\* conditional statements after the ones held, in the order given, and one
\* with no list changes nothing; no extension changes the else body.
C7_IfElsePriority ==
    [][ /\ IfElseOrder'
        /\ ret'.op = "ast_new_if_else" =>
              /\ lists'[heap'[ret'.val].conditional_statements] = <<ret'.args[1]>>
              /\ heap'[ret'.val].else_condition = ret'.args[2]
        /\ ret'.op = "ast_extend_if_else" =>
              LET n == ret'.args[1]
                  l == heap[n].conditional_statements
                  new == ret'.args[2]
              IN  /\ heap'[n] = heap[n]
                  /\ lists'[l] = IF new = NULL THEN lists[l]
                                 ELSE lists[l] \o lists[new] ]_vars

C7_Witness ==
    /\ ret.op = "ast_extend_if_else"
    /\ ret.args[2] # NULL
    /\ Len(lists[ret.args[2]]) = 2
    /\ LET n == ret.args[1]
           l == lists[heap[n].conditional_statements]
       IN  /\ heap[n].else_condition = 104
           /\ Len(l) = 3
           /\ l = <<l[1]>> \o lists[ret.args[2]]
           /\ l[1] # l[2] /\ l[2] # l[3] /\ l[1] # l[3]

(***************************************************************************)
(* The default of a case statement.                                        *)
(***************************************************************************)
\* the indices of the items of list l that are flagged default
Defaults(l) == {i \in DOMAIN lists[l] : heap[lists[l][i]].is_default}

Least(S) == CHOOSE i \in S : \A j \in S : i <= j

\* C8: default_item of the case statement returned is the first item of its
\* list that is flagged default, and NULL exactly when none is.
C8_CaseDefault ==
    ret.op = "ast_new_case_statement" =>
        LET l == ret.args[2]
            d == heap[ret.val].default_item
        IN  /\ heap[ret.val].cases = l
            /\ d = IF Defaults(l) = {} THEN NULL
                   ELSE lists[l][Least(Defaults(l))]
            /\ (d = NULL) <=> (Defaults(l) = {})

C8_Witness ==
    /\ ret.op = "ast_new_case_statement"
    /\ LET l == ret.args[2]
       IN  /\ Len(lists[l]) = 3
           /\ Defaults(l) = {2, 3}
           /\ heap[ret.val].default_item = lists[l][2]

(***************************************************************************)
(* Tag checks.                                                             *)
(***************************************************************************)
IdentifierTags == {"NET_IDENTIFIER", "VAR_IDENTIFIER", "GENVAR_IDENTIFIER"}

ConcatenationTags == {"NET_CONCATENATION", "VAR_CONCATENATION"}

\* C9: ast_new_lvalue_id fails exactly for the tags that are not identifier
\* tags, ast_new_lvalue_concat exactly for those that are not concatenation
\* tags; a node returned holds the tag and the payload given, and every
\* lvalue node has a tag of the category of its payload.
C9_LvalueTag ==
    /\ ret.op = "ast_new_lvalue_id" =>
          /\ ret.failed <=> ret.args[1] \notin IdentifierTags
          /\ ~ret.failed =>
                /\ heap[ret.val].type = ret.args[1]
                /\ heap[ret.val].data =
                       [member |-> "identifier", value |-> ret.args[2]]
    /\ ret.op = "ast_new_lvalue_concat" =>
          /\ ret.failed <=> ret.args[1] \notin ConcatenationTags
          /\ ~ret.failed =>
                /\ heap[ret.val].type = ret.args[1]
                /\ heap[ret.val].data =
                       [member |-> "concatenation", value |-> ret.args[2]]
    /\ \A a \in Blocks("ast_lvalue") :
          \/ heap[a].type \in IdentifierTags /\ heap[a].data.member = "identifier"
          \/ /\ heap[a].type \in ConcatenationTags
             /\ heap[a].data.member = "concatenation"

C9_Witness ==
    /\ ret.op = "ast_new_lvalue_id"
    /\ ret.failed /\ aborted
    /\ ret.args[1] = "NET_CONCATENATION"
    /\ \E a, b \in Blocks("ast_lvalue") :
          /\ heap[a].data.member = "identifier"
          /\ heap[b].data.member = "concatenation"
          /\ heap[b].data.value # NULL

\* C10: a constructor that rejects its arguments leaves the registry as it
\* was before the call.
C10_RejectionLeavesRegistry ==
    [][ (ret'.failed /\ ret'.op # "ast_free_all") =>
            /\ Registry' = Registry
            /\ head' = head
            /\ walker' = walker ]_vars


(***************************************************************************)
(* Event expressions and event controls.                                   *)
(***************************************************************************)
NextEvent ==
    \/ \E e \in ast_edge, x \in Ext : ast_new_event_expression(e, x)
    \/ \E left, right \in Live("ast_event_expression") :
          ast_new_event_expression_sequence(left, right)
    \/ \E t \in ast_event_control_type,
          e \in {NULL} \cup Live("ast_event_expression") :
          ast_new_event_control(t, e)

SpecEvent == Init /\ [][NextEvent]_vars

\* the event kind ast_new_event_expression gives each edge that it accepts
EventKind(trigger_edge) ==
    CASE trigger_edge = "EDGE_POS" -> "EVENT_POSEDGE"
      [] trigger_edge = "EDGE_NEG" -> "EVENT_NEGEDGE"
      [] trigger_edge = "EDGE_ANY" -> "EVENT_EXPRESSION"

\* C11: ast_new_event_expression fails for EDGE_NONE; for EDGE_POS, EDGE_NEG
\* and EDGE_ANY it returns a node of kind EVENT_POSEDGE, EVENT_NEGEDGE and
\* EVENT_EXPRESSION, which holds the expression it was given.
C11_EventEdgeMapping ==
    ret.op = "ast_new_event_expression" =>
        IF ret.args[1] = "EDGE_NONE"
        THEN ret.failed
        ELSE /\ ~ret.failed
             /\ ret.val # NULL
             /\ heap[ret.val].struct = "ast_event_expression"
             /\ heap[ret.val].type = EventKind(ret.args[1])
             /\ heap[ret.val].expression = ret.args[2]

C11_Witness ==
    /\ ret.op = "ast_new_event_expression"
    /\ ret.args[1] = "EDGE_NEG"
    /\ ~ret.failed
    /\ heap[ret.val].type = "EVENT_NEGEDGE"
    /\ heap[ret.val].expression = 102

\* C12: ast_new_event_control fails exactly when the type is EVENT_CTRL_ANY
\* and the expression is not NULL; otherwise the node returned holds the type
\* and the expression given.
C12_EventControlAny ==
    ret.op = "ast_new_event_control" =>
        IF ret.args[1] = "EVENT_CTRL_ANY" /\ ret.args[2] # NULL
        THEN ret.failed
        ELSE /\ ~ret.failed
             /\ ret.val # NULL
             /\ heap[ret.val].struct = "ast_event_control"
             /\ heap[ret.val].type = ret.args[1]
             /\ heap[ret.val].expression = ret.args[2]

C12_Witness ==
    /\ ret.op = "ast_new_event_control"
    /\ ret.args[1] = "EVENT_CTRL_TRIGGERS"
    /\ ret.args[2] # NULL
    /\ ~ret.failed
    /\ heap[ret.val].expression = ret.args[2]

\* C13: ast_new_event_expression_sequence(left, right) returns a node of kind
\* EVENT_SEQUENCE whose sequence is the two-element list (right, left).
C13_EventSequenceOrder ==
    ret.op = "ast_new_event_expression_sequence" =>
        /\ ~ret.failed
        /\ heap[ret.val].type = "EVENT_SEQUENCE"
        /\ heap[ret.val].sequence \in DOMAIN lists
        /\ lists[heap[ret.val].sequence] = <<ret.args[2], ret.args[1]>>
        /\ ast_list_get(lists, heap[ret.val].sequence, 0) = ret.args[2]
        /\ ast_list_get(lists, heap[ret.val].sequence, 1) = ret.args[1]

C13_Witness ==
    /\ ret.op = "ast_new_event_expression_sequence"
    /\ ret.args[1] # ret.args[2]
    /\ lists[heap[ret.val].sequence] = <<ret.args[2], ret.args[1]>>

(***************************************************************************)
(* Primaries and expressions.  value is a union: its member last written   *)
(* and the value.                                                          *)
(***************************************************************************)
ast_primary_type == {"CONSTANT_PRIMARY", "PRIMARY", "MODULE_PATH_PRIMARY"}

\* PRIMARY_FUNCTION_CALL is the one enumerator the file names; PRIMARY_NUMBER
\* stands for every other kind of value
ast_primary_value_type == {"PRIMARY_NUMBER", "PRIMARY_FUNCTION_CALL"}

ast_primary_t ==
    [struct |-> "ast_primary", primary_type |-> ENUM_0, value_type |-> ENUM_0,
     value |-> [member |-> "none", value |-> NULL]]

ast_new_constant_primary(type) ==
    /\ ~aborted
    /\ brk + 2 <= 2 * MaxNodes
    /\ LET m1 == ast_calloc(Mem, ast_primary_t)
           tr == Returned(m1)
       IN  Return("ast_new_constant_primary", <<type>>,
                  StoreAll(m1, tr, [primary_type |-> "CONSTANT_PRIMARY",
                                    value_type |-> type]), tr)

ast_new_primary_function_call(call) ==
    /\ ~aborted
    /\ brk + 2 <= 2 * MaxNodes
    /\ LET m1 == ast_calloc(Mem, ast_primary_t)
           tr == Returned(m1)
       IN  Return("ast_new_primary_function_call", <<call>>,
                  StoreAll(m1, tr, [primary_type |-> "PRIMARY",
                                    value_type |-> "PRIMARY_FUNCTION_CALL",
                                    value |-> [member |-> "function_call",
                                               value |-> call]]), tr)

ast_new_primary(type) ==
    /\ ~aborted
    /\ brk + 2 <= 2 * MaxNodes
    /\ LET m1 == ast_calloc(Mem, ast_primary_t)
           tr == Returned(m1)
       IN  Return("ast_new_primary", <<type>>,
                  StoreAll(m1, tr, [primary_type |-> "PRIMARY",
                                    value_type |-> type]), tr)

\* ast_new_module_path_primary tagging its node as a constant primary
ast_new_module_path_primary_as_constant(type) ==
    /\ ~aborted
    /\ brk + 2 <= 2 * MaxNodes
    /\ LET m1 == ast_calloc(Mem, ast_primary_t)
           tr == Returned(m1)
       IN  Return("ast_new_module_path_primary", <<type>>,
                  StoreAll(m1, tr, [primary_type |-> "CONSTANT_PRIMARY",
                                    value_type |-> type]), tr)

ast_new_module_path_primary(type) ==
    /\ ~aborted
    /\ brk + 2 <= 2 * MaxNodes
    /\ LET m1 == ast_calloc(Mem, ast_primary_t)
           tr == Returned(m1)
       IN  Return("ast_new_module_path_primary", <<type>>,
                  StoreAll(m1, tr, [primary_type |-> "MODULE_PATH_PRIMARY",
                                    value_type |-> type]), tr)

ast_expression_t ==
    [struct |-> "ast_expression", type |-> ENUM_0, attributes |-> NULL,
     left |-> NULL, right |-> NULL, aux |-> NULL, primary |-> NULL,
     operation |-> ENUM_0, constant |-> AST_FALSE, string |-> NULL]

\* ast_new_expression_primary marking every expression constant
ast_new_expression_primary_all_constant(p) ==
    /\ ~aborted
    /\ brk + 2 <= 2 * MaxNodes
    /\ LET m1 == ast_calloc(Mem, ast_expression_t)
           tr == Returned(m1)
       IN  Return("ast_new_expression_primary", <<p>>,
                  StoreAll(m1, tr, [attributes |-> NULL, right |-> NULL,
                                    left |-> NULL, aux |-> NULL,
                                    type |-> "PRIMARY_EXPRESSION",
                                    primary |-> p,
                                    constant |-> AST_TRUE]), tr)

\* p is dereferenced: the caller passes a primary
ast_new_expression_primary(p) ==
    /\ ~aborted
    /\ brk + 2 <= 2 * MaxNodes
    /\ LET m1 == ast_calloc(Mem, ast_expression_t)
           tr == Returned(m1)
       IN  Return("ast_new_expression_primary", <<p>>,
                  StoreAll(m1, tr, [attributes |-> NULL, right |-> NULL,
                                    left |-> NULL, aux |-> NULL,
                                    type |-> "PRIMARY_EXPRESSION",
                                    primary |-> p,
                                    constant |->
                                        IF heap[p].primary_type = "CONSTANT_PRIMARY"
                                        THEN AST_TRUE ELSE AST_FALSE]), tr)

\* constant is not assigned: it keeps the zero of calloc
ast_new_range_expression(left, right) ==
    /\ ~aborted
    /\ brk + 2 <= 2 * MaxNodes
    /\ LET m1 == ast_calloc(Mem, ast_expression_t)
           tr == Returned(m1)
       IN  Return("ast_new_range_expression", <<left, right>>,
                  StoreAll(m1, tr, [attributes |-> NULL, right |-> right,
                                    left |-> left, aux |-> NULL,
                                    type |-> "RANGE_EXPRESSION_UP_DOWN"]), tr)

\* constant is not assigned: it keeps the zero of calloc
ast_new_index_expression(left) ==
    /\ ~aborted
    /\ brk + 2 <= 2 * MaxNodes
    /\ LET m1 == ast_calloc(Mem, ast_expression_t)
           tr == Returned(m1)
       IN  Return("ast_new_index_expression", <<left>>,
                  StoreAll(m1, tr, [attributes |-> NULL, right |-> NULL,
                                    left |-> left, aux |-> NULL,
                                    type |-> "RANGE_EXPRESSION_INDEX"]), tr)

ast_new_string_expression(string) ==
    /\ ~aborted
    /\ brk + 2 <= 2 * MaxNodes
    /\ LET m1 == ast_calloc(Mem, ast_expression_t)
           tr == Returned(m1)
       IN  Return("ast_new_string_expression", <<string>>,
                  StoreAll(m1, tr, [attributes |-> NULL, right |-> NULL,
                                    left |-> NULL, aux |-> NULL,
                                    type |-> "STRING_EXPRESSION",
                                    constant |-> AST_TRUE,
                                    string |-> string]), tr)

NextExpr ==
    \/ \E t \in ast_primary_value_type : ast_new_constant_primary(t)
    \/ \E call \in {NULL, 101} : ast_new_primary_function_call(call)
    \/ \E t \in ast_primary_value_type : ast_new_primary(t)
    \/ \E t \in ast_primary_value_type : ast_new_module_path_primary(t)
    \/ \E p \in Live("ast_primary") : ast_new_expression_primary(p)
    \/ \E l, r \in {NULL} \cup JustBuilt("ast_expression") :
          ast_new_range_expression(l, r)
    \/ \E l \in {NULL} \cup JustBuilt("ast_expression") :
          ast_new_index_expression(l)
    \/ \E s \in Ext : ast_new_string_expression(s)

SpecExpr == Init /\ [][NextExpr]_vars

\* C14: the expression ast_new_expression_primary(p) returns is of kind
\* PRIMARY_EXPRESSION, refers to p, has no attributes and no left, right or aux
\* child, and is constant exactly when p is a CONSTANT_PRIMARY.
C14_ExpressionPrimary ==
    ret.op = "ast_new_expression_primary" =>
        /\ ~ret.failed
        /\ heap[ret.val].struct = "ast_expression"
        /\ heap[ret.val].type = "PRIMARY_EXPRESSION"
        /\ heap[ret.val].primary = ret.args[1]
        /\ heap[ret.val].attributes = NULL
        /\ heap[ret.val].left = NULL
        /\ heap[ret.val].right = NULL
        /\ heap[ret.val].aux = NULL
        /\ heap[ret.val].constant = AST_TRUE
              <=> heap[ret.args[1]].primary_type = "CONSTANT_PRIMARY"

C14_Witness ==
    /\ ret.op = "ast_new_expression_primary"
    /\ heap[ret.args[1]].primary_type = "MODULE_PATH_PRIMARY"
    /\ heap[ret.val].constant = AST_FALSE
    /\ \E a \in Blocks("ast_expression") :
          /\ heap[a].type = "PRIMARY_EXPRESSION"
          /\ heap[a].constant = AST_TRUE

\* C15: the expression returned by ast_new_string_expression, by
\* ast_new_range_expression and by ast_new_index_expression has its constant
\* flag true.
C15_StringRangeConstant ==
    (/\ ret.op \in {"ast_new_string_expression", "ast_new_range_expression",
                    "ast_new_index_expression"}
     /\ ~ret.failed)
        => heap[ret.val].constant = AST_TRUE

\* C16: a primary is tagged with the discriminator of the constructor that
\* returned it (ast_new_primary_function_call also sets the value type
\* PRIMARY_FUNCTION_CALL and the call), and the tag of a primary never changes.
C16_PrimaryDiscriminator ==
    [][ /\ \A a \in DOMAIN heap :
              heap[a].struct = "ast_primary" =>
                  heap'[a].primary_type = heap[a].primary_type
        /\ \A a \in DOMAIN heap' \ DOMAIN heap :
              heap'[a].struct = "ast_primary" =>
                  /\ ret'.val = a
                  /\ heap'[a].primary_type \in ast_primary_type
                  /\ heap'[a].primary_type = "CONSTANT_PRIMARY"
                        <=> ret'.op = "ast_new_constant_primary"
                  /\ heap'[a].primary_type = "MODULE_PATH_PRIMARY"
                        <=> ret'.op = "ast_new_module_path_primary"
                  /\ heap'[a].primary_type = "PRIMARY"
                        <=> ret'.op \in {"ast_new_primary",
                                         "ast_new_primary_function_call"}
                  /\ ret'.op = "ast_new_primary_function_call" =>
                        /\ heap'[a].value_type = "PRIMARY_FUNCTION_CALL"
                        /\ heap'[a].value = [member |-> "function_call",
                                             value |-> ret'.args[1]]
      ]_vars

C16_Witness ==
    /\ ret.op = "ast_new_primary_function_call"
    /\ ret.args[1] # NULL
    /\ heap[ret.val].primary_type = "PRIMARY"
    /\ \E a \in Blocks("ast_primary") :
          heap[a].primary_type = "MODULE_PATH_PRIMARY"
    /\ \E a \in Blocks("ast_primary") :
          heap[a].primary_type = "CONSTANT_PRIMARY"

(***************************************************************************)
(* The tree: nodes refer to their children through pointer fields and      *)
(* through the items of the lists they hold.                               *)
(***************************************************************************)
\* the number of items in the lists of ls
RECURSIVE Items(_)
Items(ls) ==
    IF DOMAIN ls = {} THEN 0
    ELSE LET l == CHOOSE x \in DOMAIN ls : TRUE
         IN  Len(ls[l]) + Items([x \in DOMAIN ls \ {l} |-> ls[x]])

\* a run builds concatenations of concatenations, or one if-else chain
NextTree ==
    \/ \E first \in {101} \cup Live("ast_concatenation") :
          /\ Blocks("ast_conditional_statement") = {} /\ DOMAIN lists \subseteq Owned
          /\ Cardinality(Blocks("ast_concatenation")) <= MaxObjs
          /\ Items(lists) < MaxLen
          /\ ast_new_concatenation("CONCATENATION_EXPRESSION", NULL, first)
    \/ \E c \in Live("ast_concatenation"),
          data \in {101} \cup Live("ast_concatenation") :
          /\ Items(lists) < MaxLen
          /\ ast_extend_concatenation(c, NULL, data)
    \/ \E s \in {102} \cup Live("ast_if_else") :
          /\ Blocks("ast_concatenation") = {}
          /\ ast_new_conditional_statement(s, 103)
    \/ \E c \in JustBuilt("ast_conditional_statement") :
          /\ Cardinality(Blocks("ast_if_else")) < MaxObjs
          /\ ast_new_if_else(c, NULL)
    \/ /\ Blocks("ast_concatenation") = {}
       /\ Open = {}
       /\ Call_ast_list_new
    \/ \E l \in Open, item \in JustBuilt("ast_conditional_statement") :
          Call_ast_list_append(l, item)
    \/ \E c \in Live("ast_if_else"), l \in {NULL} \cup Open :
          ast_extend_if_else(c, l)

SpecTree == Init /\ [][NextTree]_vars

\* the fields that hold a pointer to a child node
ChildFields ==
    {"repeat", "statement", "condition", "else_condition", "expression",
     "left", "right", "aux", "primary"}

\* the nodes that node a of heap h refers to, directly or as a list item
Edges(h, ls, a) ==
    ({h[a][f] : f \in ChildFields \cap DOMAIN h[a]}
        \cup UNION {Range(ls[h[a][f]]) :
                       f \in {g \in ListFields \cap DOMAIN h[a] :
                                 h[a][g] \in DOMAIN ls}})
    \cap DOMAIN h

RECURSIVE ReachN(_, _, _, _)
ReachN(h, ls, S, n) ==
    IF n = 0 THEN S
    ELSE ReachN(h, ls, S \cup UNION {Edges(h, ls, a) : a \in S}, n - 1)

\* the nodes reachable from the nodes of S, those of S included
Reach(h, ls, S) == ReachN(h, ls, S \cap DOMAIN h, Cardinality(DOMAIN h))

\* no node is reachable from itself
Acyclic(h, ls) ==
    \A a \in DOMAIN h : a \notin Reach(h, ls, Edges(h, ls, a))

\* the step just taken is an extension that added an item from which the
\* node extended could already be reached
ExtendedOntoItself ==
    \/ /\ ret'.op = "ast_extend_concatenation"
       /\ ret'.args[1] \in Reach(heap, lists, {ret'.args[3]})
    \/ /\ ret'.op = "ast_extend_if_else"
       /\ ret'.args[2] # NULL
       /\ ret'.args[1] \in Reach(heap, lists, Range(lists[ret'.args[2]]))

\* C17 as stated: no node is reachable from itself through child or list-item
\* references, after any sequence of factory and extension operations.
C17_Acyclic == Acyclic(heap, lists)

\* C17 as amended: no constructor makes a cycle, and ast_extend_concatenation
\* or ast_extend_if_else makes one exactly when the node it extends is, or can
\* be reached from, an item it adds.
C17_AcyclicUnlessExtendedOntoItself ==
    [][ Acyclic(heap, lists) =>
            (Acyclic(heap', lists') <=> ~ExtendedOntoItself) ]_vars

C17_Witness ==
    /\ ret.op = "ast_extend_concatenation"
    /\ ret.args[3] \in Blocks("ast_concatenation")
    /\ ret.args[3] \in Edges(heap, lists, ret.args[1])
    /\ Acyclic(heap, lists)

(***************************************************************************)
(* Constructors that store their arguments: one or more of each family.    *)
(***************************************************************************)
\* ast_new_conditional_expression with its two branches exchanged
ast_new_conditional_expression_swapped(condition, if_true, if_false, attr) ==
    /\ ~aborted
    /\ brk + 2 <= 2 * MaxNodes
    /\ LET m1 == ast_calloc(Mem, ast_expression_t)
           tr == Returned(m1)
       IN  Return("ast_new_conditional_expression",
                  <<condition, if_true, if_false, attr>>,
                  StoreAll(m1, tr, [attributes |-> attr, right |-> if_true,
                                    left |-> if_false, aux |-> condition,
                                    type |-> "CONDITIONAL_EXPRESSION"]), tr)

ast_new_conditional_expression(condition, if_true, if_false, attr) ==
    /\ ~aborted
    /\ brk + 2 <= 2 * MaxNodes
    /\ LET m1 == ast_calloc(Mem, ast_expression_t)
           tr == Returned(m1)
       IN  Return("ast_new_conditional_expression",
                  <<condition, if_true, if_false, attr>>,
                  StoreAll(m1, tr, [attributes |-> attr, right |-> if_false,
                                    left |-> if_true, aux |-> condition,
                                    type |-> "CONDITIONAL_EXPRESSION"]), tr)

ast_new_mintypmax_expression(min, typ, max) ==
    /\ ~aborted
    /\ brk + 2 <= 2 * MaxNodes
    /\ LET m1 == ast_calloc(Mem, ast_expression_t)
           tr == Returned(m1)
       IN  Return("ast_new_mintypmax_expression", <<min, typ, max>>,
                  StoreAll(m1, tr, [attributes |-> NULL, right |-> max,
                                    left |-> min, aux |-> typ,
                                    type |-> "MINTYPMAX_EXPRESSION"]), tr)

ast_statement_t ==
    [struct |-> "ast_statement", type |-> ENUM_0,
     is_function_statement |-> AST_FALSE, is_generate_statement |-> AST_FALSE,
     data |-> NULL, attributes |-> NULL]

ast_new_statement(attr, is_function_statement, data, type) ==
    /\ ~aborted
    /\ brk + 2 <= 2 * MaxNodes
    /\ LET m1 == ast_calloc(Mem, ast_statement_t)
           tr == Returned(m1)
       IN  Return("ast_new_statement",
                  <<attr, is_function_statement, data, type>>,
                  StoreAll(m1, tr,
                      [type |-> type,
                       is_function_statement |-> is_function_statement,
                       is_generate_statement |-> AST_FALSE,
                       data |-> data, attributes |-> attr]), tr)

ast_single_assignment_t ==
    [struct |-> "ast_single_assignment", lval |-> NULL, expression |-> NULL]

ast_new_single_assignment(lval, expression) ==
    /\ ~aborted
    /\ brk + 2 <= 2 * MaxNodes
    /\ LET m1 == ast_calloc(Mem, ast_single_assignment_t)
           tr == Returned(m1)
       IN  Return("ast_new_single_assignment", <<lval, expression>>,
                  StoreAll(m1, tr, [lval |-> lval,
                                    expression |-> expression]), tr)

ast_assignment_t ==
    [struct |-> "ast_assignment", type |-> ENUM_0, continuous |-> NULL,
     procedural |-> NULL, hybrid |-> NULL]

ast_procedural_assignment_t ==
    [struct |-> "ast_procedural_assignment", lval |-> NULL,
     expression |-> NULL, delay_or_event |-> NULL]

\* two allocations: the assignment, then its procedural part
ast_new_blocking_assignment(lval, expression, delay_or_event) ==
    /\ ~aborted
    /\ brk + 4 <= 2 * MaxNodes
    /\ LET m1 == ast_calloc(Mem, ast_assignment_t)
           tr == Returned(m1)
           m2 == StoreAll(m1, tr, [type |-> "ASSIGNMENT_BLOCKING"])
           m3 == ast_calloc(m2, ast_procedural_assignment_t)
           pr == Returned(m3)
           m4 == StoreAll(m3, tr, [procedural |-> pr])
       IN  Return("ast_new_blocking_assignment",
                  <<lval, expression, delay_or_event>>,
                  StoreAll(m4, pr, [lval |-> lval, expression |-> expression,
                                    delay_or_event |-> delay_or_event]), tr)

(***************************************************************************)
(* Loop statements.                                                        *)
(***************************************************************************)
ast_loop_statement_t ==
    [struct |-> "ast_loop_statement", type |-> ENUM_0,
     inner_statement |-> NULL, initial |-> NULL, condition |-> NULL,
     modify |-> NULL]

\* ast_new_forever_loop_statement keeping its argument as the condition too
ast_new_forever_loop_statement_with_condition(inner_statement) ==
    /\ ~aborted
    /\ brk + 2 <= 2 * MaxNodes
    /\ LET m1 == ast_calloc(Mem, ast_loop_statement_t)
           tr == Returned(m1)
       IN  Return("ast_new_forever_loop_statement", <<inner_statement>>,
                  StoreAll(m1, tr, [type |-> "LOOP_FOREVER",
                                    inner_statement |-> inner_statement,
                                    initial |-> NULL,
                                    condition |-> inner_statement,
                                    modify |-> NULL]), tr)

ast_new_forever_loop_statement(inner_statement) ==
    /\ ~aborted
    /\ brk + 2 <= 2 * MaxNodes
    /\ LET m1 == ast_calloc(Mem, ast_loop_statement_t)
           tr == Returned(m1)
       IN  Return("ast_new_forever_loop_statement", <<inner_statement>>,
                  StoreAll(m1, tr, [type |-> "LOOP_FOREVER",
                                    inner_statement |-> inner_statement,
                                    initial |-> NULL, condition |-> NULL,
                                    modify |-> NULL]), tr)

ast_new_for_loop_statement(inner_statement, initial_condition, modify_assignment, continue_condition) ==
    /\ ~aborted
    /\ brk + 2 <= 2 * MaxNodes
    /\ LET m1 == ast_calloc(Mem, ast_loop_statement_t)
           tr == Returned(m1)
       IN  Return("ast_new_for_loop_statement",
                  <<inner_statement, initial_condition, modify_assignment,
                    continue_condition>>,
                  StoreAll(m1, tr, [type |-> "LOOP_FOR",
                                    inner_statement |-> inner_statement,
                                    initial |-> initial_condition,
                                    condition |-> continue_condition,
                                    modify |-> modify_assignment]), tr)

ast_new_while_loop_statement(inner_statement, continue_condition) ==
    /\ ~aborted
    /\ brk + 2 <= 2 * MaxNodes
    /\ LET m1 == ast_calloc(Mem, ast_loop_statement_t)
           tr == Returned(m1)
       IN  Return("ast_new_while_loop_statement",
                  <<inner_statement, continue_condition>>,
                  StoreAll(m1, tr, [type |-> "LOOP_WHILE",
                                    inner_statement |-> inner_statement,
                                    initial |-> NULL,
                                    condition |-> continue_condition,
                                    modify |-> NULL]), tr)

ast_new_repeat_loop_statement(inner_statement, continue_condition) ==
    /\ ~aborted
    /\ brk + 2 <= 2 * MaxNodes
    /\ LET m1 == ast_calloc(Mem, ast_loop_statement_t)
           tr == Returned(m1)
       IN  Return("ast_new_repeat_loop_statement",
                  <<inner_statement, continue_condition>>,
                  StoreAll(m1, tr, [type |-> "LOOP_REPEAT",
                                    inner_statement |-> inner_statement,
                                    initial |-> NULL,
                                    condition |-> continue_condition,
                                    modify |-> NULL]), tr)

(***************************************************************************)
(* Declarations, instantiations, gate and UDP instances.                   *)
(***************************************************************************)
\* PARAM_GENERIC is the one enumerator the file names; PARAM_INTEGER stands
\* for every other kind of parameter
ast_parameter_type == {"PARAM_GENERIC", "PARAM_INTEGER"}

ast_parameter_declarations_t ==
    [struct |-> "ast_parameter_declarations", assignments |-> NULL,
     signed_values |-> AST_FALSE, local |-> AST_FALSE, range |-> NULL,
     type |-> ENUM_0]

\* ast_new_parameter_declarations without its if(type != PARAM_GENERIC)
ast_new_parameter_declarations_as_given(assignments, signed_values, local, range, type) ==
    /\ ~aborted
    /\ brk + 2 <= 2 * MaxNodes
    /\ LET m1 == ast_calloc(Mem, ast_parameter_declarations_t)
           tr == Returned(m1)
       IN  Return("ast_new_parameter_declarations",
                  <<assignments, signed_values, local, range, type>>,
                  StoreAll(m1, tr, [assignments |-> assignments,
                                    signed_values |-> signed_values,
                                    range |-> range, type |-> type,
                                    local |-> local]), tr)

ast_new_parameter_declarations(assignments, signed_values, local, range, type) ==
    /\ ~aborted
    /\ brk + 2 <= 2 * MaxNodes
    /\ LET m1 == ast_calloc(Mem, ast_parameter_declarations_t)
           tr == Returned(m1)
           m2 == StoreAll(m1, tr, [assignments |-> assignments,
                                   signed_values |-> signed_values,
                                   range |-> range, type |-> type,
                                   local |-> local])
           m3 == IF type # "PARAM_GENERIC"
                 THEN StoreAll(m2, tr, [range |-> NULL,
                                        signed_values |-> AST_FALSE])
                 ELSE m2
       IN  Return("ast_new_parameter_declarations",
                  <<assignments, signed_values, local, range, type>>, m3, tr)

ast_port_declaration_t ==
    [struct |-> "ast_port_declaration", direction |-> ENUM_0,
     net_type |-> ENUM_0, net_signed |-> AST_FALSE, is_reg |-> AST_FALSE,
     is_variable |-> AST_FALSE, range |-> NULL, port_names |-> NULL]

ast_new_port_declaration(direction, net_type, net_signed, is_reg, is_variable, range, port_names) ==
    /\ ~aborted
    /\ brk + 2 <= 2 * MaxNodes
    /\ LET m1 == ast_calloc(Mem, ast_port_declaration_t)
           tr == Returned(m1)
       IN  Return("ast_new_port_declaration",
                  <<direction, net_type, net_signed, is_reg, is_variable,
                    range, port_names>>,
                  StoreAll(m1, tr, [direction |-> direction,
                                    net_type |-> net_type,
                                    net_signed |-> net_signed,
                                    is_reg |-> is_reg,
                                    is_variable |-> is_variable,
                                    range |-> range,
                                    port_names |-> port_names]), tr)

ast_module_instantiation_t ==
    [struct |-> "ast_module_instantiation", module_identifer |-> NULL,
     module_parameters |-> NULL, module_instances |-> NULL]

ast_new_module_instantiation(module_identifer, module_parameters, module_instances) ==
    /\ ~aborted
    /\ brk + 2 <= 2 * MaxNodes
    /\ LET m1 == ast_calloc(Mem, ast_module_instantiation_t)
           tr == Returned(m1)
       IN  Return("ast_new_module_instantiation",
                  <<module_identifer, module_parameters, module_instances>>,
                  StoreAll(m1, tr,
                      [module_identifer |-> module_identifer,
                       module_parameters |-> module_parameters,
                       module_instances |-> module_instances]), tr)

ast_n_input_gate_instance_t ==
    [struct |-> "ast_n_input_gate_instance", name |-> NULL,
     input_terminals |-> NULL, output_terminal |-> NULL]

ast_new_n_input_gate_instance(name, input_terminals, output_terminal) ==
    /\ ~aborted
    /\ brk + 2 <= 2 * MaxNodes
    /\ LET m1 == ast_calloc(Mem, ast_n_input_gate_instance_t)
           tr == Returned(m1)
       IN  Return("ast_new_n_input_gate_instance",
                  <<name, input_terminals, output_terminal>>,
                  StoreAll(m1, tr, [name |-> name,
                                    input_terminals |-> input_terminals,
                                    output_terminal |-> output_terminal]), tr)

ast_udp_instance_t ==
    [struct |-> "ast_udp_instance", identifier |-> NULL, range |-> NULL,
     output |-> NULL, inputs |-> NULL]

ast_new_udp_instance(identifier, range, output, inputs) ==
    /\ ~aborted
    /\ brk + 2 <= 2 * MaxNodes
    /\ LET m1 == ast_calloc(Mem, ast_udp_instance_t)
           tr == Returned(m1)
       IN  Return("ast_new_udp_instance",
                  <<identifier, range, output, inputs>>,
                  StoreAll(m1, tr, [identifier |-> identifier,
                                    range |-> range, output |-> output,
                                    inputs |-> inputs]), tr)

NextRoundTrip ==
    \/ \E attr \in {NULL, 104} :
          /\ brk + 2 <= 2 * MaxChecked
          /\ ast_new_conditional_expression(101, 102, 103, attr)
    \/ /\ brk + 2 <= 2 * MaxChecked
       /\ ast_new_mintypmax_expression(101, 102, 103)
    \/ \E attr \in {NULL, 104}, f \in {AST_TRUE, AST_FALSE} :
          /\ brk + 2 <= 2 * MaxChecked
          /\ ast_new_statement(attr, f, 101, "STM_LOOP")
    \/ \E lval \in {NULL, 101} :
          /\ brk + 2 <= 2 * MaxChecked
          /\ ast_new_single_assignment(lval, 102)
    \/ \E d \in {NULL, 103} :
          /\ brk + 4 <= 2 * MaxChecked
          /\ ast_new_blocking_assignment(101, 102, d)
    \/ /\ brk + 2 <= 2 * MaxChecked
       /\ ast_new_for_loop_statement(101, 102, 103, 104)
    \/ \E signed_values, local \in {AST_TRUE, AST_FALSE},
          range \in {NULL, 102}, type \in ast_parameter_type :
          /\ brk + 2 <= 2 * MaxChecked
          /\ ast_new_parameter_declarations(101, signed_values, local,
                                            range, type)
    \/ \E direction \in ast_port_direction,
          net_signed \in {AST_TRUE, AST_FALSE} :
          /\ brk + 2 <= 2 * MaxChecked
          /\ ast_new_port_declaration(direction, "NET_TYPE_WIRE", net_signed,
                                      AST_TRUE, AST_FALSE, 101, 102)
    \/ /\ brk + 2 <= 2 * MaxChecked
       /\ ast_new_module_instantiation(101, 102, 103)
    \/ /\ brk + 2 <= 2 * MaxChecked
       /\ ast_new_n_input_gate_instance(101, 102, 103)
    \/ /\ brk + 2 <= 2 * MaxChecked
       /\ ast_new_udp_instance(101, 102, 103, 104)

SpecRoundTrip == Init /\ [][NextRoundTrip]_vars

NextLoop ==
    \/ \E s \in {NULL, 101} :
          /\ brk + 2 <= 2 * MaxChecked
          /\ ast_new_forever_loop_statement(s)
    \/ \E i \in {NULL, 102}, m \in {NULL, 103}, c \in {NULL, 104} :
          /\ brk + 2 <= 2 * MaxChecked
          /\ ast_new_for_loop_statement(101, i, m, c)
    \/ \E c \in {NULL, 104} :
          /\ brk + 2 <= 2 * MaxChecked
          /\ ast_new_while_loop_statement(101, c)
    \/ \E c \in {NULL, 104} :
          /\ brk + 2 <= 2 * MaxChecked
          /\ ast_new_repeat_loop_statement(101, c)

SpecLoop == Init /\ [][NextLoop]_vars

\* the constructors whose every argument is looked up in the node returned
RoundTripOps ==
    {"ast_new_conditional_expression", "ast_new_mintypmax_expression",
     "ast_new_statement", "ast_new_single_assignment",
     "ast_new_blocking_assignment", "ast_new_for_loop_statement",
     "ast_new_parameter_declarations", "ast_new_port_declaration",
     "ast_new_module_instantiation", "ast_new_n_input_gate_instance",
     "ast_new_udp_instance"}

\* where the node returned by `op` is expected to hold each argument, in the
\* order of the arguments: a member, or a member of a member
ArgFields(op) ==
    CASE op = "ast_new_conditional_expression" ->
            << <<"aux">>, <<"left">>, <<"right">>, <<"attributes">> >>
      [] op = "ast_new_mintypmax_expression" ->
            << <<"left">>, <<"aux">>, <<"right">> >>
      [] op = "ast_new_statement" ->
            << <<"attributes">>, <<"is_function_statement">>, <<"data">>,
               <<"type">> >>
      [] op = "ast_new_single_assignment" ->
            << <<"lval">>, <<"expression">> >>
      [] op = "ast_new_blocking_assignment" ->
            << <<"procedural", "lval">>, <<"procedural", "expression">>,
               <<"procedural", "delay_or_event">> >>
      [] op = "ast_new_for_loop_statement" ->
            << <<"inner_statement">>, <<"initial">>, <<"modify">>,
               <<"condition">> >>
      [] op = "ast_new_parameter_declarations" ->
            << <<"assignments">>, <<"signed_values">>, <<"local">>,
               <<"range">>, <<"type">> >>
      [] op = "ast_new_port_declaration" ->
            << <<"direction">>, <<"net_type">>, <<"net_signed">>,
               <<"is_reg">>, <<"is_variable">>, <<"range">>,
               <<"port_names">> >>
      [] op = "ast_new_module_instantiation" ->
            << <<"module_identifer">>, <<"module_parameters">>,
               <<"module_instances">> >>
      [] op = "ast_new_n_input_gate_instance" ->
            << <<"name">>, <<"input_terminals">>, <<"output_terminal">> >>
      [] op = "ast_new_udp_instance" ->
            << <<"identifier">>, <<"range">>, <<"output">>, <<"inputs">> >>

\* node -> member, or node -> member -> member
Field(a, path) ==
    IF Len(path) = 1 THEN heap[a][path[1]]
    ELSE heap[heap[a][path[1]]][path[2]]

\* argument i of the last call is in the node returned, unchanged
Retrievable(i) == Field(ret.val, ArgFields(ret.op)[i]) = ret.args[i]

\* the arguments ast_new_parameter_declarations does not keep
Suppressed ==
    IF ret.op = "ast_new_parameter_declarations"
          /\ ret.args[5] # "PARAM_GENERIC"
    THEN {2, 4} ELSE {}

\* C18 as stated: every argument passed to a constructor is retrievable
\* unchanged from a field of the node it returns.
C18_RoundTrip ==
    (ret.op \in RoundTripOps /\ ~ret.failed) =>
        \A i \in DOMAIN ret.args : Retrievable(i)

\* C18 as amended: every argument passed to a constructor is retrievable
\* unchanged from the node it returns, except the range and the signedness
\* given to ast_new_parameter_declarations for a type other than
\* PARAM_GENERIC, in whose place the node holds NULL and false.
C18_RoundTripButSuppressed ==
    (ret.op \in RoundTripOps /\ ~ret.failed) =>
        /\ \A i \in DOMAIN ret.args \ Suppressed : Retrievable(i)
        /\ Suppressed # {} => /\ heap[ret.val].signed_values = AST_FALSE
                              /\ heap[ret.val].range = NULL

C18_Witness ==
    /\ ret.op = "ast_new_parameter_declarations"
    /\ ret.args[2] = AST_TRUE
    /\ Suppressed = {2, 4}
    /\ heap[ret.val].local = AST_TRUE
    /\ \E a \in Blocks("ast_expression") :
          /\ heap[a].type = "CONDITIONAL_EXPRESSION"
          /\ heap[a].left = 102
          /\ heap[a].right = 103

\* C19: the node ast_new_parameter_declarations returns has range NULL and
\* signed_values false when type is not PARAM_GENERIC, range and
\* signed_values as given when it is, and assignments, local and type as
\* given in both cases.
C19_ParameterSuppression ==
    ret.op = "ast_new_parameter_declarations" =>
        /\ ~ret.failed
        /\ heap[ret.val].assignments = ret.args[1]
        /\ heap[ret.val].local = ret.args[3]
        /\ heap[ret.val].type = ret.args[5]
        /\ IF ret.args[5] = "PARAM_GENERIC"
           THEN /\ heap[ret.val].signed_values = ret.args[2]
                /\ heap[ret.val].range = ret.args[4]
           ELSE /\ heap[ret.val].signed_values = AST_FALSE
                /\ heap[ret.val].range = NULL

C19_Witness ==
    /\ ret.op = "ast_new_parameter_declarations"
    /\ ret.args[2] = AST_TRUE
    /\ ret.args[4] # NULL
    /\ ret.args[5] # "PARAM_GENERIC"
    /\ heap[ret.val].range = NULL
    /\ \E a \in Blocks("ast_parameter_declarations") :
          /\ heap[a].type = "PARAM_GENERIC"
          /\ heap[a].range # NULL
          /\ heap[a].signed_values = AST_TRUE

\* the type tag of each loop constructor
LoopTag(op) ==
    CASE op = "ast_new_forever_loop_statement" -> "LOOP_FOREVER"
      [] op = "ast_new_for_loop_statement" -> "LOOP_FOR"
      [] op = "ast_new_while_loop_statement" -> "LOOP_WHILE"
      [] op = "ast_new_repeat_loop_statement" -> "LOOP_REPEAT"

\* C20: in every loop statement, initial and modify are NULL unless the loop
\* is a LOOP_FOR and condition is NULL if it is a LOOP_FOREVER; the loop a
\* constructor returns has that constructor's tag and, for the for, while and
\* repeat loops, the condition supplied.
C20_LoopFieldsByVariant ==
    /\ \A a \in Blocks("ast_loop_statement") :
          /\ heap[a].type # "LOOP_FOR" =>
                heap[a].initial = NULL /\ heap[a].modify = NULL
          /\ heap[a].type = "LOOP_FOREVER" => heap[a].condition = NULL
    /\ ret.val \in Blocks("ast_loop_statement") =>
          /\ heap[ret.val].type = LoopTag(ret.op)
          /\ ret.op # "ast_new_forever_loop_statement" =>
                heap[ret.val].condition = ret.args[Len(ret.args)]

C20_Witness ==
    /\ ret.op = "ast_new_forever_loop_statement"
    /\ ret.args[1] # NULL
    /\ heap[ret.val].condition = NULL
    /\ \E a \in Blocks("ast_loop_statement") :
          /\ heap[a].type = "LOOP_FOR"
          /\ heap[a].initial # NULL
          /\ heap[a].modify # NULL
          /\ heap[a].condition # NULL

(***************************************************************************)
(* Hybrid assignments.  The assignment and its hybrid part are two blocks. *)
(***************************************************************************)
\* stand-ins: the file names no enumerator of ast_hybrid_assignment_type
ast_hybrid_assignment_type == {"HYBRID_ASSIGNMENT_ASSIGN", "HYBRID_ASSIGNMENT_FORCE"}

\* the two payloads as members of their own, each zeroed by calloc
ast_hybrid_assignment_t ==
    [struct |-> "ast_hybrid_assignment", type |-> ENUM_0,
     assignment |-> NULL, lval |-> NULL]

ast_new_hybrid_assignment(type, assignment) ==
    /\ ~aborted
    /\ brk + 4 <= 2 * MaxNodes
    /\ LET m1 == ast_calloc(Mem, ast_assignment_t)
           tr == Returned(m1)
           m2 == StoreAll(m1, tr, [type |-> "ASSIGNMENT_HYBRID"])
           m3 == ast_calloc(m2, ast_hybrid_assignment_t)
           hy == Returned(m3)
           m4 == StoreAll(m3, tr, [hybrid |-> hy])
       IN  Return("ast_new_hybrid_assignment", <<type, assignment>>,
                  StoreAll(m4, hy, [type |-> type,
                                    assignment |-> assignment]), tr)

\* ast_new_hybrid_lval_assignment storing the lvalue as the assignment
ast_new_hybrid_lval_assignment_as_assignment(type, lval) ==
    /\ ~aborted
    /\ brk + 4 <= 2 * MaxNodes
    /\ LET m1 == ast_calloc(Mem, ast_assignment_t)
           tr == Returned(m1)
           m2 == StoreAll(m1, tr, [type |-> "ASSIGNMENT_HYBRID"])
           m3 == ast_calloc(m2, ast_hybrid_assignment_t)
           hy == Returned(m3)
           m4 == StoreAll(m3, tr, [hybrid |-> hy])
       IN  Return("ast_new_hybrid_lval_assignment", <<type, lval>>,
                  StoreAll(m4, hy, [type |-> type, assignment |-> lval]), tr)

ast_new_hybrid_lval_assignment(type, lval) ==
    /\ ~aborted
    /\ brk + 4 <= 2 * MaxNodes
    /\ LET m1 == ast_calloc(Mem, ast_assignment_t)
           tr == Returned(m1)
           m2 == StoreAll(m1, tr, [type |-> "ASSIGNMENT_HYBRID"])
           m3 == ast_calloc(m2, ast_hybrid_assignment_t)
           hy == Returned(m3)
           m4 == StoreAll(m3, tr, [hybrid |-> hy])
       IN  Return("ast_new_hybrid_lval_assignment", <<type, lval>>,
                  StoreAll(m4, hy, [type |-> type, lval |-> lval]), tr)

NextHybrid ==
    \/ \E lval \in {NULL} \cup Live("ast_lvalue") :
          ast_new_single_assignment(lval, 102)
    \/ \E t \in {"NET_IDENTIFIER", "VAR_IDENTIFIER"} :
          ast_new_lvalue_id(t, 101)
    \/ \E t \in ast_hybrid_assignment_type,
          a \in {NULL} \cup Live("ast_single_assignment") :
          ast_new_hybrid_assignment(t, a)
    \/ \E t \in ast_hybrid_assignment_type,
          l \in {NULL} \cup Live("ast_lvalue") :
          ast_new_hybrid_lval_assignment(t, l)

SpecHybrid == Init /\ [][NextHybrid]_vars

\* C21: a hybrid assignment never holds both payloads; the node returned by
\* ast_new_hybrid_assignment is an ASSIGNMENT_HYBRID that holds the given
\* single assignment and no lvalue, the node returned by
\* ast_new_hybrid_lval_assignment an ASSIGNMENT_HYBRID that holds the given
\* lvalue and no single assignment.
C21_HybridOnePayload ==
    /\ \A h \in Blocks("ast_hybrid_assignment") :
          heap[h].assignment = NULL \/ heap[h].lval = NULL
    /\ ret.op = "ast_new_hybrid_assignment" =>
          /\ heap[ret.val].type = "ASSIGNMENT_HYBRID"
          /\ heap[heap[ret.val].hybrid].type = ret.args[1]
          /\ heap[heap[ret.val].hybrid].assignment = ret.args[2]
          /\ heap[heap[ret.val].hybrid].lval = NULL
    /\ ret.op = "ast_new_hybrid_lval_assignment" =>
          /\ heap[ret.val].type = "ASSIGNMENT_HYBRID"
          /\ heap[heap[ret.val].hybrid].type = ret.args[1]
          /\ heap[heap[ret.val].hybrid].lval = ret.args[2]
          /\ heap[heap[ret.val].hybrid].assignment = NULL

C21_Witness ==
    /\ ret.op = "ast_new_hybrid_lval_assignment"
    /\ ret.args[2] \in Blocks("ast_lvalue")
    /\ heap[heap[ret.val].hybrid].lval = ret.args[2]
    /\ heap[heap[ret.val].hybrid].assignment = NULL

(***************************************************************************)
(* The two forms of UDP port.                                              *)
(***************************************************************************)
ast_new_udp_input_port(identifiers, attributes) ==
    /\ ~aborted
    /\ brk + 2 <= 2 * MaxNodes
    /\ LET m1 == ast_calloc(Mem, ast_udp_port_t)
           tr == Returned(m1)
       IN  Return("ast_new_udp_input_port", <<identifiers, attributes>>,
                  StoreAll(m1, tr, [direction     |-> "PORT_INPUT",
                                    identifiers   |-> identifiers,
                                    attributes    |-> attributes,
                                    reg           |-> AST_FALSE,
                                    default_value |-> NULL]), tr)

NextUdpPort ==
    \/ \E identifiers \in {NULL, 102}, attributes \in {NULL, 104} :
          /\ brk + 2 <= 2 * MaxChecked
          /\ ast_new_udp_input_port(identifiers, attributes)
    \/ \E direction \in ast_port_direction, attributes \in {NULL, 104},
          reg \in {AST_TRUE, AST_FALSE}, default_value \in {NULL, 103} :
          /\ brk + 2 <= 2 * MaxChecked
          /\ ast_new_udp_port(direction, 101, attributes, reg, default_value)

SpecUdpPort == Init /\ [][NextUdpPort]_vars

\* C22: ast_new_udp_input_port returns a PORT_INPUT port with reg false, no
\* default value, and the identifier list and attributes given;
\* ast_new_udp_port fails for PORT_INPUT and otherwise returns a port holding
\* its five arguments; so every PORT_INPUT port has reg false and no default
\* value.
C22_UdpPortForms ==
    /\ ret.op = "ast_new_udp_input_port" =>
          /\ ~ret.failed
          /\ heap[ret.val].direction = "PORT_INPUT"
          /\ heap[ret.val].reg = AST_FALSE
          /\ heap[ret.val].default_value = NULL
          /\ heap[ret.val].identifiers = ret.args[1]
          /\ heap[ret.val].attributes = ret.args[2]
    /\ ret.op = "ast_new_udp_port" =>
          IF ret.args[1] = "PORT_INPUT"
          THEN ret.failed
          ELSE /\ ~ret.failed
               /\ heap[ret.val].direction = ret.args[1]
               /\ heap[ret.val].identifier = ret.args[2]
               /\ heap[ret.val].attributes = ret.args[3]
               /\ heap[ret.val].reg = ret.args[4]
               /\ heap[ret.val].default_value = ret.args[5]
    /\ \A p \in Blocks("ast_udp_port") :
          heap[p].direction = "PORT_INPUT" =>
              heap[p].reg = AST_FALSE /\ heap[p].default_value = NULL

C22_Witness ==
    /\ ret.op = "ast_new_udp_port"
    /\ ret.args[1] = "PORT_INPUT"
    /\ ret.args[4] = AST_TRUE
    /\ ret.failed
    /\ \E p \in Blocks("ast_udp_port") :
          /\ heap[p].direction = "PORT_INPUT"
          /\ heap[p].identifiers # NULL
    /\ \E p \in Blocks("ast_udp_port") :
          /\ heap[p].direction = "PORT_INPUT"
          /\ heap[p].identifiers = NULL

(***************************************************************************)
(* Switch gates and timing controls: the type tag against the payload.     *)
(***************************************************************************)
NextSwitch ==
    \/ \E t \in ast_switchtype, d \in {102, 104} : ast_new_switch_gate_d2(t, d)
    \/ \E t \in ast_switchtype, d \in {103, 104} : ast_new_switch_gate_d3(t, d)

SpecSwitch == Init /\ [][NextSwitch]_vars

\* the switch types that take a two-value delay
TwoValueDelay == {"SWITCH_TRAN", "SWITCH_RTRAN"}

\* C23: ast_new_switch_gate_d2 succeeds exactly for SWITCH_TRAN and
\* SWITCH_RTRAN, ast_new_switch_gate_d3 exactly for the other switch types,
\* and a switch gate holds a two-value delay iff its type is one of those two.
C23_SwitchGateTag ==
    /\ ret.op = "ast_new_switch_gate_d2" =>
          (~ret.failed <=> ret.args[1] \in TwoValueDelay)
    /\ ret.op = "ast_new_switch_gate_d3" =>
          (~ret.failed <=> ret.args[1] \notin TwoValueDelay)
    /\ (ret.op \in {"ast_new_switch_gate_d2", "ast_new_switch_gate_d3"}
           /\ ~ret.failed) =>
          /\ heap[ret.val].type = ret.args[1]
          /\ ret.args[2] \in {heap[ret.val].delay2, heap[ret.val].delay3}
    /\ \A g \in Blocks("ast_switch_gate") :
          /\ heap[g].delay2 # NULL <=> heap[g].type \in TwoValueDelay
          /\ heap[g].delay3 # NULL <=> heap[g].type \notin TwoValueDelay

C23_Witness ==
    /\ ret.op = "ast_new_switch_gate_d3"
    /\ ret.args[1] = "SWITCH_RTRAN"
    /\ ret.failed
    /\ \E g \in Blocks("ast_switch_gate") : heap[g].type = "SWITCH_RTRAN"
    /\ \E g \in Blocks("ast_switch_gate") : heap[g].type = "SWITCH_NMOS"

NextTiming ==
    \/ \E t \in ast_timing_control_statement_type, statement \in {NULL, 102},
          delay_ctrl \in {NULL, 103} :
          /\ brk + 2 <= 2 * MaxChecked
          /\ ast_new_timing_control_statement_delay(t, statement, delay_ctrl)
    \/ \E t \in ast_timing_control_statement_type, repeat \in {NULL, 104},
          event_ctrl \in {NULL, 101} :
          /\ brk + 2 <= 2 * MaxChecked
          /\ ast_new_timing_control_statement_event(t, repeat, 102, event_ctrl)

SpecTiming == Init /\ [][NextTiming]_vars

\* the types of a timing control that holds an event control
EventControlTypes ==
    {"TIMING_CTRL_EVENT_CONTROL", "TIMING_CTRL_EVENT_CONTROL_REPEAT"}

\* C24: ast_new_timing_control_statement_delay succeeds only for
\* TIMING_CTRL_DELAY_CONTROL and returns a node with the delay control and
\* statement given and no repeat; ast_new_timing_control_statement_event
\* succeeds only for the two event-control types and returns a node with the
\* event control, statement and repeat given; so the tag of a node returned
\* matches the kind of control it holds.
C24_TimingControlTag ==
    /\ ret.op = "ast_new_timing_control_statement_delay" =>
          IF ret.args[1] = "TIMING_CTRL_DELAY_CONTROL"
          THEN /\ ~ret.failed
               /\ heap[ret.val].type = ret.args[1]
               /\ heap[ret.val].statement = ret.args[2]
               /\ heap[ret.val].delay = ret.args[3]
               /\ heap[ret.val].repeat = NULL
          ELSE ret.failed
    /\ ret.op = "ast_new_timing_control_statement_event" =>
          IF ret.args[1] \in EventControlTypes
          THEN /\ ~ret.failed
               /\ heap[ret.val].type = ret.args[1]
               /\ heap[ret.val].repeat = ret.args[2]
               /\ heap[ret.val].statement = ret.args[3]
               /\ heap[ret.val].event_ctrl = ret.args[4]
          ELSE ret.failed
    /\ \A t \in Blocks("ast_timing_control_statement") :
          /\ heap[t].type = "TIMING_CTRL_DELAY_CONTROL" =>
                heap[t].event_ctrl = NULL
          /\ heap[t].type \in EventControlTypes => heap[t].delay = NULL

C24_Witness ==
    /\ ret.op = "ast_new_timing_control_statement_event"
    /\ ret.args[1] = "TIMING_CTRL_EVENT_CONTROL_REPEAT"
    /\ ret.args[2] # NULL
    /\ ret.args[4] # NULL
    /\ ~ret.failed
    /\ \E t \in Blocks("ast_timing_control_statement") :
          /\ heap[t].type = "TIMING_CTRL_DELAY_CONTROL"
          /\ heap[t].delay # NULL

\* C25: head is NULL iff no ast_calloc was called since the start or the last
\* ast_free_all; otherwise the chain from head has one record per such call,
\* their data blocks are the blocks returned, in call order, walker is the
\* last record of the chain and that record's next is NULL.
C25_RegistryInvariant ==
    /\ head = NULL <=> session = <<>>
    /\ head # NULL =>
          /\ Len(Chain) = Len(session)
          /\ Registry = session
          /\ walker = Chain[Len(Chain)]
          /\ heap[walker].next = NULL

C25_Witness ==
    /\ ret.op = "ast_calloc"
    /\ Len(session) = 3
    /\ brk > 2 * Len(session)
    /\ Registry = session

(***************************************************************************)
(* Attribute lists: nodes chained through their next member.               *)
(***************************************************************************)
ast_node_attributes_t ==
    [struct |-> "ast_node_attributes", attr_name |-> NULL,
     attr_value |-> NULL, next |-> NULL]

ast_new_attributes(name, value) ==
    /\ ~aborted
    /\ brk + 2 <= 2 * MaxNodes
    /\ LET m1 == ast_calloc(Mem, ast_node_attributes_t)
           tr == Returned(m1)
       IN  Return("ast_new_attributes", <<name, value>>,
                  StoreAll(m1, tr, [attr_name |-> name,
                                    attr_value |-> value]), tr)

\* the attributes from p on, in chain order
AttrChain(h, p) == ChainFrom(h, p, Cardinality(DOMAIN h))

\* the caller links two attributes itself: parent -> next = toadd
Set_next(parent, toadd) ==
    /\ ~aborted
    /\ heap[parent].next = NULL
    /\ Return("parent -> next = toadd", <<parent, toadd>>,
              Store(Mem, parent, "next", toadd), NULL)

\* the while loop of ast_append_attribute, from a walker w that is not NULL
RECURSIVE ast_append_attribute_loop(_, _)
ast_append_attribute_loop(h, w) ==
    IF h[w].next # NULL
    THEN ast_append_attribute_loop(h, h[w].next)
    ELSE w

\* The local walker, w here, starts at parent -> next.  When that is NULL the
\* loop condition reads w -> next through a NULL pointer, which is undefined:
\* with `trap` the process is killed there, without it the accesses through
\* NULL touch no attribute and the call returns.
ast_append_attribute(parent, toadd, trap) ==
    /\ ~aborted
    /\ LET w == heap[parent].next
           args == <<parent, toadd>>
       IN  IF w = NULL
           THEN IF trap
                THEN Abort("ast_append_attribute", args, Mem)
                ELSE Return("ast_append_attribute", args, Mem, NULL)
           ELSE Return("ast_append_attribute", args,
                       Store(Mem, ast_append_attribute_loop(heap, w),
                             "next", toadd), NULL)

\* attributes that end a chain and that `parent` does not lead to: what a
\* caller adds to the list of `parent`
Addable(parent) ==
    {a \in Live("ast_node_attributes") :
        /\ heap[a].next = NULL
        /\ a \notin Range(AttrChain(heap, parent))
        /\ \A b \in Blocks("ast_node_attributes") : heap[b].next # a}

NextAttr ==
    \/ \E name \in {101, 102} : ast_new_attributes(name, 103)
    \/ \E parent \in Live("ast_node_attributes") :
          \E toadd \in Addable(parent) : Set_next(parent, toadd)
    \/ \E parent \in Live("ast_node_attributes"), trap \in BOOLEAN :
          \E toadd \in Addable(parent) :
              ast_append_attribute(parent, toadd, trap)

SpecAttr == Init /\ [][NextAttr]_vars

\* C26: ast_append_attribute(parent, toadd) completes for every chain of
\* length n >= 1 starting at parent, and afterwards the chain is the chain
\* before it, unchanged and in the same order, followed by toadd.
C26_AppendAtEnd ==
    [][ ret'.op = "ast_append_attribute" =>
            /\ ~ret'.failed
            /\ AttrChain(heap', ret'.args[1])
                  = Append(AttrChain(heap, ret'.args[1]), ret'.args[2]) ]_vars

(***************************************************************************)
(* Function calls.                                                         *)
(***************************************************************************)
ast_function_call_t ==
    [struct |-> "ast_function_call", function |-> NULL,
     constant |-> AST_FALSE, system |-> AST_FALSE, arguments |-> NULL,
     attributes |-> NULL]

\* ast_new_function_call without its if(tr -> arguments == NULL)
ast_new_function_call_keeps_null(id, constant, system, attr, arguments) ==
    /\ ~aborted
    /\ brk + 2 <= 2 * MaxNodes
    /\ LET m1 == ast_calloc(Mem, ast_function_call_t)
           tr == Returned(m1)
           m2 == StoreAll(m1, tr, [function |-> id, constant |-> constant,
                                   system |-> system, arguments |-> arguments,
                                   attributes |-> attr])
       IN  ReturnL("ast_new_function_call",
                   <<id, constant, system, attr, arguments>>,
                   m2, tr, lists, given)

ast_new_function_call(id, constant, system, attr, arguments) ==
    /\ ~aborted
    /\ brk + 2 <= 2 * MaxNodes
    /\ LET m1 == ast_calloc(Mem, ast_function_call_t)
           tr == Returned(m1)
           m2 == StoreAll(m1, tr, [function |-> id, constant |-> constant,
                                   system |-> system, arguments |-> arguments,
                                   attributes |-> attr])
           args == <<id, constant, system, attr, arguments>>
       IN  IF m2.heap[tr].arguments = NULL
           THEN ReturnL("ast_new_function_call", args,
                        StoreAll(m2, tr, [arguments |-> ast_list_handle(lists)]),
                        tr, ast_list_new(lists), given)
           ELSE ReturnL("ast_new_function_call", args, m2, tr, lists, given)

\* the lists no function call holds: those the caller built
CallerLists ==
    {l \in DOMAIN lists :
        \A f \in Blocks("ast_function_call") : heap[f].arguments # l}

NextCall ==
    \/ /\ Cardinality(DOMAIN lists) < MaxObjs
       /\ Call_ast_list_new
    \/ \E l \in CallerLists : Call_ast_list_append(l, 101)
    \/ \E constant \in {AST_TRUE, AST_FALSE}, attr \in {NULL, 104},
          arguments \in {NULL} \cup DOMAIN lists :
          /\ brk + 2 <= 2 * MaxChecked
          /\ ast_new_function_call(102, constant, ~constant, attr, arguments)

SpecCall == Init /\ [][NextCall]_vars

\* C27: the node ast_new_function_call returns always has an argument list:
\* a new, empty one when arguments is NULL, otherwise the list given, which
\* is left as it was; function, constant, system and attributes are the
\* arguments given.
C27_FunctionCallArguments ==
    [][ ret'.op = "ast_new_function_call" =>
            /\ ~ret'.failed
            /\ heap'[ret'.val].function = ret'.args[1]
            /\ heap'[ret'.val].constant = ret'.args[2]
            /\ heap'[ret'.val].system = ret'.args[3]
            /\ heap'[ret'.val].attributes = ret'.args[4]
            /\ heap'[ret'.val].arguments \in DOMAIN lists'
            /\ \A l \in DOMAIN lists : lists'[l] = lists[l]
            /\ IF ret'.args[5] = NULL
               THEN /\ heap'[ret'.val].arguments \notin DOMAIN lists
                    /\ lists'[heap'[ret'.val].arguments] = <<>>
               ELSE /\ heap'[ret'.val].arguments = ret'.args[5]
                    /\ DOMAIN lists' = DOMAIN lists ]_vars

C27_Witness ==
    /\ ret.op = "ast_new_function_call"
    /\ ret.args[5] = NULL
    /\ lists[heap[ret.val].arguments] = <<>>
    /\ \E f \in Blocks("ast_function_call") :
          /\ heap[f].arguments # heap[ret.val].arguments
          /\ Len(lists[heap[f].arguments]) = 2

=============================================================================
